---- MODULE Spec2Model ----
(***************************************************************************)
(* Model of the Python code quality server, src/py_mcp/src/server.py:      *)
(* CodeAnalyzer / EnhancedCodeAnalyzer (rule matching and quality score),  *)
(* ChromaDBManager (static catalogue plus optional index),                 *)
(* CodeMemoryManager (context window and SQLite tables) and the tool       *)
(* handlers of PythonCodeQualityServer.                                    *)
(*                                                                         *)
(* Source text is modelled as a sequence of lines, each a sequence of      *)
(* tokens; a token is a piece of Python text, and the text of a snippet    *)
(* is the concatenation of its tokens, lines joined by "\n".  Scores are   *)
(* kept in tenths of a point (50.0 is 500) so that the 0.6 and 0.3         *)
(* weights stay integral.                                                  *)
(***************************************************************************)
EXTENDS Integers, Sequences, FiniteSets, TLC

VARIABLES
    engine,           \* "unbuilt" | "running" | "aborted": PythonCodeQualityServer()
    has_chromadb,     \* ChromaDBManager.has_chromadb
    store_env,        \* environment: "ok" | "unavailable" (SQLite file cannot be opened/written)
                      \*   | "locked" (another connection holds a read lock: commits fail)
    index_env,        \* environment: "absent" | "init_fails" | "ok" | "query_raises" | "hangs"
    context_window,   \* CodeMemoryManager.context_window (deque, maxlen 50)
    quality_patterns, \* CodeMemoryManager.quality_patterns (list)
    code_history,     \* table code_history
    pattern_table,    \* table quality_patterns
    pc,               \* "idle" | "in_query": where the running handler is
    arg,              \* argument of the call in progress / last call
    ret,              \* what the last call returned (or raised)
    calls             \* number of calls made so far

vars == <<engine, has_chromadb, store_env, index_env, context_window,
          quality_patterns, code_history, pattern_table, pc, arg, ret, calls>>

-----------------------------------------------------------------------------
(* Bounds of the model                                                     *)

\* how often one issue-bearing line may be repeated in an analysed snippet
MaxRepeat == 2

-----------------------------------------------------------------------------
(* Text: tokens, lines, substring tests                                    *)

\* the substrings the source looks for (`in`, str.replace, re) in each token
Needles(tok) ==
    CASE tok = "\"\"\"doc\"\"\"" -> {"\"\"\""}
      [] tok = "def " -> {"def "}
      [] tok = "(" -> {"("}
      [] tok = ")" -> {")"}
      [] tok = ":" -> {":"}
      [] tok = "->" -> {"->"}
      [] tok = "# " -> {"# "}
      [] tok = "'@functools.lru_cache'" -> {"@functools.lru_cache"}
      [] tok = "for _ in range(" -> {"(", "for _ in range("}
      [] tok = "a, b = b, a" -> {"a, b = b, a"}
      [] tok = "eval(" -> {"(", "eval("}
      [] tok = "/" -> {"/"}
      [] tok = "open(" -> {"(", "open("}
      [] tok = "try:" -> {":", "try:"}
      [] tok = "except:" -> {":", "except:", "except"}
      [] tok = "ast.literal_eval(" -> {"(", "eval("}
      [] tok = "ast.literal_ast.literal_eval(" -> {"(", "eval("}
      [] tok = "ast.literal_ast.literal_ast.literal_eval(" -> {"(", "eval("}
      [] tok = "ast.literal_ast.literal_ast.literal_ast.literal_eval(" -> {"(", "eval("}
      [] tok = "import ast" -> {"import ast"}
      [] tok = "except Exception as e:" -> {":", "except"}
      [] tok = "except ZeroDivisionError:" -> {":", "except"}
      [] tok = "print(\"Warning: Division by zero avoided\")" -> {"(", ")", ":"}
      [] tok = "result = float(\"inf\")" -> {"(", ")"}
      [] tok = "with " -> {"with"}
      [] tok = "# File operations here" -> {"# "}
      [] tok = "except (FileNotFoundError, PermissionError):" -> {"(", ")", ":", "except"}
      [] tok = "pass  # Handle file errors" -> {"# "}
      [] OTHER -> {}

\* the same for code.lower(): 'recursion' / 'recursive'
LowerNeedles(tok) ==
    CASE tok = "'Recursion'" -> {"recursion"}
      [] OTHER -> {}

\* tokens made of whitespace only (regex \s, str.strip)
IsSpace(tok) == tok \in {" ", "\n", "    "}

\* tokens that begin with a digit or a dot (regex [.\d])
StartsDigitOrDot(tok) == tok \in {"0", "3", ".5"}

\* \w+ tokens
IsWord(tok) ==
    tok \in {"f", "g", "a", "b", "s", "p", "x", "y", "z", "h", "int", "note", "pass", "0", "3"}

\* tokens that are optional whitespace followed by '='
StartsAssign(tok) == tok \in {" = ", "="}

RECURSIVE Flat(_)
\* the text as one token sequence: '\n'.join(lines)
Flat(code) ==
    IF Len(code) = 0 THEN <<>>
    ELSE IF Len(code) = 1 THEN code[1]
    ELSE code[1] \o <<"\n">> \o Flat(Tail(code))

\* needle in code
Contains(code, needle) ==
    \E l \in 1..Len(code) : \E i \in 1..Len(code[l]) : needle \in Needles(code[l][i])

\* needle in code.lower()
ContainsLower(code, needle) ==
    \E l \in 1..Len(code) : \E i \in 1..Len(code[l]) : needle \in LowerNeedles(code[l][i])

\* len(code.split('\n'))
LineCount(code) == Len(code)

\* not code.strip()
IsBlank(code) == \A l \in 1..Len(code) : \A i \in 1..Len(code[l]) : IsSpace(code[l][i])

\* code[:pos].count('\n') + 1
LineOf(flat, i) == 1 + Cardinality({j \in 1..(i - 1) : flat[j] = "\n"})

-----------------------------------------------------------------------------
(* The snippets analysed                                                   *)

DocLine     == << "\"\"\"doc\"\"\"" >>
DefLine     == << "def ", "f", "(", "a", ")", ":", " ", "return ", "a" >>
HintLine    == << "def ", "f", "(", "a", ")", " ", "->", " ", "int", ":", " ", "return ", "a" >>
CommentLine == << "# ", "note" >>
CacheLine   == << "'@functools.lru_cache'" >>
RecLine     == << "'Recursion'" >>
LoopLine    == << "for _ in range(", "3", ")", ":", " ", "pass" >>
SwapLine    == << "a, b = b, a" >>
EvalLine    == << "x", " = ", "eval(", "s", ")" >>
DivZeroLine == << "y", " = ", "a", " ", "/", " ", "0" >>
DivLine     == << "z", " = ", "a", "/", "b" >>
OpenLine    == << "h", " = ", "open(", "p", ")" >>
TryLine     == << "try:", " ", "pass" >>
ExceptLine  == << "except:", " ", "pass" >>
BadLine     == << "def ", "g", "(", ":" >>
RatioLine   == << "def ", "f", "(", "a", ")", ":", " ", "return ", "a", "/", "b" >>
HandledLine == << "except ZeroDivisionError:", " ", "pass" >>

\* n copies of a block of lines
RECURSIVE Repeat(_, _)
Repeat(block, n) == IF n = 0 THEN <<>> ELSE block \o Repeat(block, n - 1)

Opt(flag, line) == IF flag THEN <<line>> ELSE <<>>

\* the empty string: ''.split('\n') is ['']
EmptyCode == << <<>> >>

\* a snippet assembled from optional lines; an empty choice is the empty string
Assemble(c) ==
    LET body == Opt(c.doc, DocLine)
                \o (IF c.def = "plain" THEN <<DefLine>>
                    ELSE IF c.def = "hint" THEN <<HintLine>> ELSE <<>>)
                \o Opt(c.comment, CommentLine)
                \o Opt(c.cache, CacheLine)
                \o Opt(c.rec, RecLine)
                \o Opt(c.loop, LoopLine)
                \o Opt(c.swap, SwapLine)
                \o Repeat(<<EvalLine>>, c.evals)
                \o Repeat(<<DivZeroLine>>, c.divs)
                \o Opt(c.open = "before", OpenLine)
                \o (IF c.except THEN <<TryLine, ExceptLine>> ELSE <<>>)
                \o Opt(c.open = "after", OpenLine)
                \o Opt(c.bad, BadLine)
    IN  IF body = <<>> THEN EmptyCode ELSE body

\* an open(...) line goes before or after the try/except lines
Choices ==
    {c \in [doc : BOOLEAN, def : {"none", "plain", "hint"}, comment : BOOLEAN,
            cache : BOOLEAN, rec : BOOLEAN, loop : BOOLEAN, swap : BOOLEAN,
            evals : 0..MaxRepeat, divs : 0..MaxRepeat,
            open : {"none", "before", "after"}, except : BOOLEAN, bad : BOOLEAN] :
        c.open = "before" => c.except}

-----------------------------------------------------------------------------
(* CodeAnalyzer                                                            *)

Indices(n) == [i \in 1..n |-> i]

Count(flat, needle) == Cardinality({i \in 1..Len(flat) : needle \in Needles(flat[i])})

\* a line ast.parse rejects: it leaves a bracket open, or it is a `with`
\* statement whose item is an assignment (with h = open(p))
BadSyntax(line) ==
    \/ Count(line, "(") # Count(line, ")")
    \/ \E i \in 1..(Len(line) - 2) :
          line[i] = "with " /\ IsWord(line[i + 1]) /\ StartsAssign(line[i + 2])

\* ast.parse(code) returns (TRUE) or raises SyntaxError (FALSE)
ast_parse_ok(code) == \A l \in 1..Len(code) : ~BadSyntax(code[l])

\* SyntaxError.lineno: the first rejected line
SyntaxErrorLine(code) ==
    LET bad == {l \in 1..Len(code) : BadSyntax(code[l])}
    IN  CHOOSE l \in bad : \A m \in bad : l <= m

\* index of the first token after position i that is not whitespace, 0 if none
NextNonSpace(flat, i) ==
    LET later == {j \in (i + 1)..Len(flat) : ~IsSpace(flat[j])}
    IN  IF later = {} THEN 0 ELSE CHOOSE j \in later : \A k \in later : j <= k

\* r'\/\s*0(?![.\d])' matches at token i
MatchDivision(flat, i) ==
    /\ flat[i] = "/"
    /\ LET j == NextNonSpace(flat, i)
       IN  /\ j # 0
           /\ flat[j] = "0"
           /\ (j = Len(flat) \/ ~StartsDigitOrDot(flat[j + 1]))

\* r'open\s*\([^)]*\)(?![^{]*except)' matches at token i
MatchOpen(flat, i) ==
    /\ "open(" \in Needles(flat[i])
    /\ LET closers == {j \in (i + 1)..Len(flat) : ")" \in Needles(flat[j])}
       IN  /\ closers # {}
           /\ LET j == CHOOSE c \in closers : \A d \in closers : c <= d
              IN  ~ \E k \in (j + 1)..Len(flat) :
                      /\ "except" \in Needles(flat[k])
                      /\ \A m \in (j + 1)..(k - 1) : "{" \notin Needles(flat[m])

\* r'\beval\s*\(' matches at token i
MatchEval(flat, i) == flat[i] = "eval("

\* r'except\s*:' matches at token i
MatchBareExcept(flat, i) == "except:" \in Needles(flat[i])

\* self.error_patterns, in dictionary order
ErrorTypes == << "division_by_zero", "no_exception_handling", "eval_usage", "bare_except" >>

error_severity(error_type) ==
    CASE error_type = "division_by_zero"      -> "high"
      [] error_type = "no_exception_handling" -> "medium"
      [] error_type = "eval_usage"            -> "critical"
      [] error_type = "bare_except"           -> "medium"

Matches(error_type, flat, i) ==
    CASE error_type = "division_by_zero"      -> MatchDivision(flat, i)
      [] error_type = "no_exception_handling" -> MatchOpen(flat, i)
      [] error_type = "eval_usage"            -> MatchEval(flat, i)
      [] error_type = "bare_except"           -> MatchBareExcept(flat, i)

\* re.finditer(regex, code): one error per match, in text order
PatternErrors(error_type, flat) ==
    LET hits == SelectSeq(Indices(Len(flat)), LAMBDA i : Matches(error_type, flat, i))
    IN  [n \in 1..Len(hits) |->
            [type |-> error_type, severity |-> error_severity(error_type),
             line |-> LineOf(flat, hits[n])]]

\* the except SyntaxError branch: the error appended when ast.parse raises
syntax_errors(code) ==
    IF ast_parse_ok(code) THEN <<>>
    ELSE << [type |-> "syntax_error", severity |-> "critical",
             line |-> SyntaxErrorLine(code)] >>

\* the loop over self.error_patterns
pattern_errors(flat) ==
    PatternErrors(ErrorTypes[1], flat) \o PatternErrors(ErrorTypes[2], flat)
    \o PatternErrors(ErrorTypes[3], flat) \o PatternErrors(ErrorTypes[4], flat)

\* the dict analyze_code returns for the errors it collected
analysis_report(code, syntax_valid, errors) ==
    [has_errors   |-> Len(errors) > 0,
     syntax_valid |-> syntax_valid,
     errors       |-> errors,
     analysis     |-> [total_errors    |-> Len(errors),
                       critical_errors |-> Len(SelectSeq(errors,
                                              LAMBDA e : e.severity = "critical")),
                       code_length     |-> LineCount(code)]]

\* CodeAnalyzer.analyze_code
analyze_code(code) ==
    analysis_report(code, ast_parse_ok(code),
                    syntax_errors(code) \o pattern_errors(Flat(code)))

-----------------------------------------------------------------------------
(* EnhancedCodeAnalyzer                                                    *)

Max(a, b) == IF a >= b THEN a ELSE b
Min(a, b) == IF a <= b THEN a ELSE b

\* readability_score after the four readability tests
readability_score(code) ==
      (IF Contains(code, "\"\"\"") \/ Contains(code, "'''") THEN 15 ELSE 0)
    + (IF Contains(code, "def ") /\ Contains(code, "(") /\ Contains(code, ":")
          /\ Contains(code, "->") THEN 10 ELSE 0)
    + (IF LineCount(code) > 1 THEN 5 ELSE 0)
    + (IF Contains(code, "# ") THEN 5 ELSE 0)

\* the performance tests with caching counted as a gain
performance_score_caching_rewarded(code) ==
      (IF Contains(code, "@functools.lru_cache") THEN 5 ELSE 0)
    + (IF ContainsLower(code, "recursion") \/ ContainsLower(code, "recursive")
          THEN -10 ELSE 0)
    + (IF Contains(code, "for _ in range(") THEN 10 ELSE 0)
    + (IF Contains(code, "a, b = b, a") THEN 5 ELSE 0)

\* performance_score after the four performance tests
performance_score(code) ==
      (IF Contains(code, "@functools.lru_cache") THEN -5 ELSE 0)
    + (IF ContainsLower(code, "recursion") \/ ContainsLower(code, "recursive")
          THEN -10 ELSE 0)
    + (IF Contains(code, "for _ in range(") THEN 10 ELSE 0)
    + (IF Contains(code, "a, b = b, a") THEN 5 ELSE 0)

\* the chain without its last branch
severity_penalty_two_branches(severity) ==
    IF severity = "critical" THEN -30
    ELSE IF severity = "high" THEN -15
    ELSE 0

\* the if / elif chain on error["severity"]
severity_penalty(severity) ==
    IF severity = "critical" THEN -30
    ELSE IF severity = "high" THEN -15
    ELSE IF severity = "medium" THEN -5
    ELSE 0

RECURSIVE safety_score(_)
\* the loop over analyze_code(code)["errors"]
safety_score(errors) ==
    IF errors = <<>> THEN 0
    ELSE severity_penalty(Head(errors).severity) + safety_score(Tail(errors))

\* min(100.0, total_score) alone
clamp_score_above(total_score) == Min(1000, total_score)

\* max(0.0, min(100.0, total_score)), in tenths
clamp_score(total_score) == Max(0, Min(1000, total_score))

\* EnhancedCodeAnalyzer._calculate_quality_score, in tenths of a point
calculate_quality_score(code) ==
    LET total_score == 500 + readability_score(code) * 6 + performance_score(code) * 3
                           + safety_score(analyze_code(code).errors) * 10
    IN  clamp_score(total_score)

\* the names a token assigns to inside itself
TokenVars(tok) ==
    CASE tok = "a, b = b, a" -> {"b"}
      [] tok = "result = float(\"inf\")" -> {"result"}
      [] OTHER -> {}

\* re.findall(r'def\s+(\w+)\s*\(', code)
extract_functions(code) ==
    LET flat == Flat(code)
    IN  {flat[i + 1] : i \in {k \in 1..(Len(flat) - 2) :
            /\ flat[k] = "def "
            /\ IsWord(flat[k + 1])
            /\ NextNonSpace(flat, k + 1) # 0
            /\ flat[NextNonSpace(flat, k + 1)] = "("}}

\* re.findall(r'\b(\w+)\s*=', code)
extract_variables(code) ==
    LET flat == Flat(code)
    IN  {flat[i] : i \in {k \in 1..(Len(flat) - 1) :
            IsWord(flat[k]) /\ StartsAssign(flat[k + 1])}}
        \cup UNION {TokenVars(flat[k]) : k \in 1..Len(flat)}

\* EnhancedCodeAnalyzer._is_similar_code
is_similar_code(code1, code2) ==
    \/ extract_functions(code1) \cap extract_functions(code2) # {}
    \/ extract_variables(code1) \cap extract_variables(code2) # {}

\* EnhancedCodeAnalyzer._find_similar_contexts
find_similar_contexts(code, quality_score, window) ==
    SelectSeq(window, LAMBDA context :
        /\ ~(context.score < quality_score - 100)
        /\ is_similar_code(code, context.code))

RECURSIVE generate_recommendations(_, _)
\* EnhancedCodeAnalyzer._generate_recommendations
generate_recommendations(similar_contexts, quality_score) ==
    IF similar_contexts = <<>> THEN <<>>
    ELSE LET context == Head(similar_contexts)
             rest    == generate_recommendations(Tail(similar_contexts), quality_score)
         IN  IF context.score < quality_score - 50 THEN rest
             ELSE (IF Contains(context.code, "try:") /\ Contains(context.code, "except:")
                   THEN << [type |-> "no_exception_handling", code |-> context.code,
                            reason |-> "Context has good exception handling"] >>
                   ELSE <<>>)
                  \o (IF Contains(context.code, "open(") /\ Contains(context.code, "with")
                      THEN << [type |-> "file_handling", code |-> context.code,
                               reason |-> "Context uses with statement for file handling"] >>
                      ELSE <<>>)
                  \o rest

\* {**analysis, "quality_score": ..., "similar_contexts": ..., "recommendations": ...}
context_report(analysis, quality_score, similar_contexts) ==
    [quality_score    |-> quality_score,
     similar_contexts |-> similar_contexts,
     recommendations  |-> generate_recommendations(similar_contexts, quality_score)]
    @@ analysis

\* analyze_with_context once analysis and quality_score are computed
context_analysis(code, window, analysis, quality_score) ==
    context_report(analysis, quality_score,
                   find_similar_contexts(code, quality_score, window))

\* EnhancedCodeAnalyzer.analyze_with_context: the dict it returns
analyze_with_context(code, window) ==
    context_analysis(code, window, analyze_code(code), calculate_quality_score(code))

-----------------------------------------------------------------------------
(* CodeMemoryManager                                                       *)
(* The memory is the record [window, patterns, history, table]: the deque, *)
(* the in-memory pattern list and the two SQLite tables.  A pattern passed *)
(* to add_code_context is a record: [str |-> s] for a plain string, any    *)
(* other record for a dict.                                                *)

\* deque(maxlen=50)
WindowMaxLen == 50

\* a freshly constructed manager on a fresh database file
FreshMemory == [window |-> <<>>, patterns |-> <<>>, history |-> <<>>, table |-> <<>>]

\* cursor.lastrowid of an INSERT into a table with INTEGER PRIMARY KEY
lastrowid(rows) == IF rows = <<>> THEN 1 ELSE rows[Len(rows)].id + 1

\* deque.append on a deque with maxlen: a full deque drops its oldest item
deque_append_unbounded(window, item) == Append(window, item)

\* a bounded buffer that makes room by dropping its newest item
deque_append_evict_newest(window, item) ==
    IF Len(window) >= WindowMaxLen THEN Append(SubSeq(window, 1, Len(window) - 1), item)
    ELSE Append(window, item)

deque_append(window, item) ==
    IF Len(window) >= WindowMaxLen THEN Append(Tail(window), item)
    ELSE Append(window, item)

\* isinstance(pattern, dict)
IsDict(pattern) == "str" \notin DOMAIN pattern

\* pattern["type"], pattern["code"] raise KeyError when the key is missing
PatternRaises(pattern) ==
    IsDict(pattern) /\ ~({"type", "code"} \subseteq DOMAIN pattern)

RECURSIVE insert_patterns(_, _, _, _)
\* the loop over patterns inside add_code_context: the table after the
\* INSERTs made before the first pattern that raises, and whether one raised
insert_patterns(table, patterns, quality_score, context_id) ==
    IF patterns = <<>> THEN [table |-> table, raised |-> FALSE]
    ELSE LET pattern == Head(patterns)
         IN  IF PatternRaises(pattern) THEN [table |-> table, raised |-> TRUE]
             ELSE insert_patterns(
                    Append(table,
                        [id            |-> lastrowid(table),
                         pattern_type  |-> IF IsDict(pattern) THEN pattern.type ELSE pattern.str,
                         pattern_code  |-> IF IsDict(pattern) THEN pattern.code ELSE "",
                         quality_score |-> quality_score,
                         context_id    |-> context_id]),
                    Tail(patterns), quality_score, context_id)

\* add_code_context on a connection that commits every statement at once:
\* what was inserted before a pattern raised stays
add_code_context_without_rollback(m, original_code, safe_code, quality_score, patterns, store) ==
    IF store = "unavailable" THEN [mem |-> m, raised |-> "OperationalError"]
    ELSE LET context_id == lastrowid(m.history)
             history    == Append(m.history,
                              [id |-> context_id, original_code |-> original_code,
                               safe_code |-> safe_code, quality_score |-> quality_score])
             inserted   == insert_patterns(m.table, patterns, quality_score, context_id)
         IN  IF inserted.raised
             THEN [mem |-> [m EXCEPT !.history = history, !.table = inserted.table],
                   raised |-> "KeyError"]
             ELSE [mem |-> [m EXCEPT
                              !.history = history,
                              !.table   = inserted.table,
                              !.window  = deque_append(@,
                                            [id |-> context_id, code |-> original_code,
                                             safe_code |-> safe_code, score |-> quality_score,
                                             patterns |-> patterns])],
                   raised |-> "none"]

\* CodeMemoryManager.add_code_context; `with self.conn` commits when the
\* block ends normally and rolls back when it raises.  The result is the
\* memory after the call and the exception raised ("none" if none).  The
\* window is appended to inside the block, before the commit: when the
\* commit itself fails (store "locked") the rows are gone and the window
\* record stays.
add_code_context(m, original_code, safe_code, quality_score, patterns, store) ==
    IF store = "unavailable" THEN [mem |-> m, raised |-> "OperationalError"]
    ELSE LET context_id == lastrowid(m.history)
             history    == Append(m.history,
                              [id |-> context_id, original_code |-> original_code,
                               safe_code |-> safe_code, quality_score |-> quality_score])
             inserted   == insert_patterns(m.table, patterns, quality_score, context_id)
         IN  IF inserted.raised THEN [mem |-> m, raised |-> "KeyError"]
             ELSE IF store = "locked"
             THEN [mem |-> [m EXCEPT
                              !.window  = deque_append(@,
                                            [id |-> context_id, code |-> original_code,
                                             safe_code |-> safe_code, score |-> quality_score,
                                             patterns |-> patterns])],
                   raised |-> "OperationalError"]
             ELSE [mem |-> [m EXCEPT
                              !.history = history,
                              !.table   = inserted.table,
                              !.window  = deque_append(@,
                                            [id |-> context_id, code |-> original_code,
                                             safe_code |-> safe_code, score |-> quality_score,
                                             patterns |-> patterns])],
                   raised |-> "none"]

\* CodeMemoryManager.learn_quality_pattern (context_id is NULL, written 0)
learn_quality_pattern(m, pattern_type, pattern_code, quality_score, store) ==
    IF store = "unavailable" THEN [mem |-> m, raised |-> "OperationalError"]
    ELSE IF store = "locked"
    THEN [mem |-> [m EXCEPT
                     !.patterns = Append(@, [type |-> pattern_type, code |-> pattern_code,
                                             score |-> quality_score])],
          raised |-> "OperationalError"]
    ELSE [mem |-> [m EXCEPT
                     !.table    = Append(@, [id |-> lastrowid(@), pattern_type |-> pattern_type,
                                             pattern_code |-> pattern_code,
                                             quality_score |-> quality_score,
                                             context_id |-> 0]),
                     !.patterns = Append(@, [type |-> pattern_type, code |-> pattern_code,
                                             score |-> quality_score])],
          raised |-> "none"]

\* the manager's state as one record, and back
Memory == [window |-> context_window, patterns |-> quality_patterns,
           history |-> code_history, table |-> pattern_table]

SetMemory(m) ==
    /\ context_window' = m.window
    /\ quality_patterns' = m.patterns
    /\ code_history' = m.history
    /\ pattern_table' = m.table

-----------------------------------------------------------------------------
(* ChromaDBManager                                                         *)

\* longest list of error types handed to query_safe_patterns directly
MaxTypes == 4

\* patterns[:n]
Take(s, n) == SubSeq(s, 1, Min(n, Len(s)))

\* _get_mock_patterns: the keys of self.safe_patterns; the template stored
\* under a key is written by naming its key
CatalogueTypes == {"division_by_zero", "no_exception_handling", "eval_usage", "bare_except"}

safe_pattern(error_type) == [template |-> error_type]

\* ChromaDBManager.__init__: has_chromadb after construction.  HAS_CHROMADB
\* is False when the import failed; a failing client, collection or seeding
\* clears the flag
chroma_init(index) ==
    IF index = "absent" THEN FALSE
    ELSE IF index = "init_fails" THEN FALSE
    ELSE TRUE

RECURSIVE mock_patterns(_)
\* the first loop of query_safe_patterns: one template per requested type
\* that is in the catalogue, in request order
mock_patterns(error_types) ==
    IF error_types = <<>> THEN <<>>
    ELSE (IF Head(error_types) \in CatalogueTypes
          THEN << safe_pattern(Head(error_types)) >> ELSE <<>>)
         \o mock_patterns(Tail(error_types))

\* whether query_safe_patterns calls collection.query
queries_index(error_types, chromadb) == chromadb /\ error_types # <<>>

\* n_results of the query
n_results(error_types) == Min(3, Len(error_types))

\* what collection.query may answer: up to n documents of the seeded
\* collection, no document twice
IndexAnswers(n) ==
    LET docs == {safe_pattern(t) : t \in CatalogueTypes}
    IN  UNION {{s \in [1..k -> docs] : \A i, j \in 1..k : i # j => s[i] # s[j]} : k \in 0..n}

\* the index documents put before the static templates
query_safe_patterns_documents_first(error_types, documents) ==
    Take(documents \o mock_patterns(error_types), 3)

\* query_safe_patterns once collection.query has answered with `documents`
\* (<<>> when it was not called, answered nothing, or raised)
query_safe_patterns_result(error_types, documents) ==
    Take(mock_patterns(error_types) \o documents, 3)

-----------------------------------------------------------------------------
(* MCPMiddleware and EnhancedMCPMiddleware                                 *)
(* An operation that can raise returns [value, raised]: raised is "none"   *)
(* or the name of the exception, and value is meaningful when none raised. *)

\* key in dict
HasKey(dict, key) == key \in DOMAIN dict

Ok(value) == [value |-> value, raised |-> "none"]
Raise(exception) == [value |-> <<>>, raised |-> exception]

LineContains(line, needle) == \E i \in 1..Len(line) : needle \in Needles(line[i])

\* tok.replace('eval(', 'ast.literal_eval(')
ReplaceEval(tok) ==
    CASE tok = "eval(" -> "ast.literal_eval("
      [] tok = "ast.literal_eval(" -> "ast.literal_ast.literal_eval("
      [] tok = "ast.literal_ast.literal_eval(" -> "ast.literal_ast.literal_ast.literal_eval("
      [] tok = "ast.literal_ast.literal_ast.literal_eval("
             -> "ast.literal_ast.literal_ast.literal_ast.literal_eval("
      [] OTHER -> tok

\* tok.replace('except:', 'except Exception as e:')
ReplaceExcept(tok) == IF tok = "except:" THEN "except Exception as e:" ELSE tok

\* MCPMiddleware.create_mcp_context (the server, prompt, constraints and
\* metadata entries are constants of the source)
create_mcp_context(code, errors, safe_patterns) ==
    [version |-> "mcp-1.0",
     context |-> [original_code |-> code, detected_issues |-> errors,
                  safe_patterns |-> safe_patterns],
     constraints |-> << "Always include error handling", "Follow PEP8 guidelines",
                        "Use safe alternatives to dangerous functions",
                        "Maintain original functionality" >>]

\* MCPMiddleware._fix_division
fix_division(code) ==
    IF ~Contains(code, "try:") /\ Contains(code, "/")
    THEN << <<"try:">> >>
         \o [l \in 1..Len(code) |-> <<"    ">> \o code[l]]
         \o << <<"except ZeroDivisionError:">>,
               <<"    ", "print(\"Warning: Division by zero avoided\")">>,
               <<"    ", "result = float(\"inf\")">> >>
    ELSE code

RECURSIVE LeadSpace(_)
\* the leading whitespace of a line: line[:len(line) - len(line.lstrip())]
LeadSpace(line) ==
    IF line = <<>> \/ ~IsSpace(Head(line)) THEN <<>>
    ELSE <<Head(line)>> \o LeadSpace(Tail(line))

RECURSIVE DropTrailSpace(_)
DropTrailSpace(line) ==
    IF line = <<>> \/ ~IsSpace(line[Len(line)]) THEN line
    ELSE DropTrailSpace(SubSeq(line, 1, Len(line) - 1))

\* line.strip()
Strip(line) == DropTrailSpace(SubSeq(line, Len(LeadSpace(line)) + 1, Len(line)))

RECURSIVE fix_file_lines(_)
\* the loop over lines in _fix_file_ops
fix_file_lines(lines) ==
    IF lines = <<>> THEN <<>>
    ELSE LET line   == Head(lines)
             indent == LeadSpace(line)
         IN  (IF LineContains(line, "open(") /\ ~LineContains(line, "with")
              THEN << indent \o <<"try:">>,
                      indent \o <<"    ", "with ">> \o Strip(line),
                      indent \o <<"    ", "    ", "# File operations here">>,
                      indent \o <<"except (FileNotFoundError, PermissionError):">>,
                      indent \o <<"    ", "pass  # Handle file errors">> >>
              ELSE <<line>>)
             \o fix_file_lines(Tail(lines))

\* MCPMiddleware._fix_file_ops
fix_file_ops(code) ==
    IF Contains(code, "open(") /\ ~Contains(code, "with") THEN fix_file_lines(code)
    ELSE code

\* MCPMiddleware._fix_bare_except
fix_bare_except(code) ==
    [l \in 1..Len(code) |-> [i \in 1..Len(code[l]) |-> ReplaceExcept(code[l][i])]]

\* the eval_usage branch of generate_safe_code
fix_eval(code) ==
    LET replaced == [l \in 1..Len(code) |->
                        [i \in 1..Len(code[l]) |-> ReplaceEval(code[l][i])]]
    IN  IF ~Contains(replaced, "import ast") THEN << <<"import ast">> >> \o replaced
        ELSE replaced

\* one iteration of the loop of generate_safe_code
fix_error(improved_code, error_type) ==
    CASE error_type = "division_by_zero"      -> fix_division(improved_code)
      [] error_type = "no_exception_handling" -> fix_file_ops(improved_code)
      [] error_type = "eval_usage"            -> fix_eval(improved_code)
      [] error_type = "bare_except"           -> fix_bare_except(improved_code)
      [] OTHER                                -> improved_code

RECURSIVE fix_errors(_, _)
fix_errors(improved_code, errors) ==
    IF errors = <<>> THEN improved_code
    ELSE fix_errors(fix_error(improved_code, Head(errors).type), Tail(errors))

\* MCPMiddleware.generate_safe_code
generate_safe_code(original_code, mcp_context) ==
    fix_errors(original_code, mcp_context.context.detected_issues)

\* EnhancedMCPMiddleware.create_enhanced_context; dict(quality_patterns)
\* raises ValueError on a non-empty list of three-key dicts
create_enhanced_context(code, analysis, safe_patterns, m) ==
    LET base_context == create_mcp_context(code, analysis.errors, safe_patterns)
    IN  IF ~HasKey(analysis, "quality_score") THEN Raise("KeyError")
        ELSE IF ~HasKey(analysis, "quality_patterns") THEN Raise("KeyError")
        ELSE IF ~HasKey(analysis, "context_length") THEN Raise("KeyError")
        ELSE IF m.patterns # <<>> THEN Raise("ValueError")
        ELSE Ok([version |-> base_context.version,
                 context |-> base_context.context,
                 constraints |-> base_context.constraints,
                 enhanced_features |->
                    [quality_score       |-> analysis.quality_score,
                     quality_patterns    |-> analysis.quality_patterns,
                     similar_contexts    |-> Take(analysis.similar_contexts, 3),
                     recommendations     |-> analysis.recommendations,
                     context_memory_size |-> analysis.context_length],
                 learning_data |->
                    [pattern_frequencies     |-> <<>>,
                     historical_improvements |-> Len(m.window)]])

\* EnhancedMCPMiddleware._apply_quality_patterns: it only logs, but reads
\* context["safe"] once "def " is in the code
apply_quality_patterns(code, context) ==
    IF Contains(code, "def ") /\ ~HasKey(context, "safe") THEN Raise("KeyError")
    ELSE Ok(code)

\* "with open" in rec_code
ContainsWithOpen(code) ==
    \E l \in 1..Len(code) : \E i \in 1..(Len(code[l]) - 1) :
        code[l][i] = "with " /\ code[l][i + 1] = "open("

RECURSIVE sub_open(_)
\* re.sub(r'(\s*)(\w+)\s*=\s*open\(', r'\1with open(', line)
sub_open(line) ==
    IF Len(line) < 3 THEN line
    ELSE IF IsWord(line[1]) /\ StartsAssign(line[2]) /\ line[3] = "open("
         THEN <<"with ", "open(">> \o sub_open(SubSeq(line, 4, Len(line)))
         ELSE <<Head(line)>> \o sub_open(Tail(line))

\* EnhancedMCPMiddleware._apply_recommendation
apply_recommendation(code, recommendation) ==
    IF /\ recommendation.type = "no_exception_handling"
       /\ ContainsWithOpen(recommendation.code)
       /\ Contains(code, "open(") /\ ~Contains(code, "with")
    THEN [l \in 1..Len(code) |-> sub_open(code[l])]
    ELSE code

RECURSIVE apply_similar(_, _)
\* the loop over similar_contexts in generate_context_aware_code
apply_similar(improved_code, similar_contexts) ==
    IF similar_contexts = <<>> THEN Ok(improved_code)
    ELSE IF Head(similar_contexts).score > 800
         THEN LET applied == apply_quality_patterns(improved_code, Head(similar_contexts))
              IN  IF applied.raised # "none" THEN applied
                  ELSE apply_similar(applied.value, Tail(similar_contexts))
         ELSE apply_similar(improved_code, Tail(similar_contexts))

RECURSIVE apply_recommendations(_, _)
\* the loop over recommendations in generate_context_aware_code
apply_recommendations(improved_code, recommendations) ==
    IF recommendations = <<>> THEN Ok(improved_code)
    ELSE LET rec == Head(recommendations)
         IN  IF ~HasKey(rec, "quality_score") THEN Raise("KeyError")
             ELSE apply_recommendations(
                    IF rec.quality_score > 750 THEN apply_recommendation(improved_code, rec)
                    ELSE improved_code,
                    Tail(recommendations))

\* EnhancedMCPMiddleware.generate_context_aware_code
generate_context_aware_code(original_code, enhanced_context) ==
    LET improved_code == generate_safe_code(original_code, enhanced_context)
        after_similar == apply_similar(improved_code,
                            enhanced_context.enhanced_features.similar_contexts)
    IN  IF after_similar.raised # "none" THEN after_similar
        ELSE apply_recommendations(after_similar.value,
                                   enhanced_context.enhanced_features.recommendations)

-----------------------------------------------------------------------------
(* PythonCodeQualityServer: the tool handlers                              *)
(* A handler returns [mem, out]: the memory after the call and the JSON    *)
(* object it returns.  An exception caught by the handler's except clause  *)
(* gives the object {"error": ...}; `exception` and `step` record what was *)
(* raised and by which step of the handler.                                *)

ErrorOut(message, exception, step) ==
    [error |-> message, exception |-> exception, step |-> step]

\* the except clause of handle_validate_code
validation_failed(mem, exception, step) ==
    [mem |-> mem, out |-> ErrorOut("Enhanced validation failed", exception, step)]

RECURSIVE learn_all(_, _, _, _)
\* for pattern in patterns: learn_quality_pattern(pattern["type"], pattern["code"], score)
learn_all(m, patterns, quality_score, store) ==
    IF patterns = <<>> THEN [mem |-> m, raised |-> "none"]
    ELSE LET learned == learn_quality_pattern(m, Head(patterns).type, Head(patterns).code,
                                              quality_score, store)
         IN  IF learned.raised # "none" THEN learned
             ELSE learn_all(learned.mem, Tail(patterns), quality_score, store)

\* [pattern["code"] for pattern in patterns], each a plain string
pattern_codes(patterns) == [i \in 1..Len(patterns) |-> [str |-> patterns[i].code]]

\* the safe branch after add_code_context: the report
safe_report(code, analysis, added) ==
    IF added.raised # "none" THEN validation_failed(added.mem, added.raised, "safe")
    ELSE IF ~HasKey(analysis, "context_length")
    THEN validation_failed(added.mem, "KeyError", "safe")
    ELSE [mem |-> added.mem,
          out |-> [status |-> "safe",
                   original_code |-> code,
                   analysis |-> analysis.analysis,
                   quality_score |-> analysis.quality_score,
                   quality_patterns |-> analysis.quality_patterns,
                   context_insights |->
                      [similar_contexts_found |-> Len(analysis.similar_contexts),
                       memory_size |-> analysis.context_length]]]

\* the safe branch after the learning loop: add_code_context(code, code, score, [])
safe_store(code, analysis, learned, store) ==
    IF learned.raised # "none" THEN validation_failed(learned.mem, learned.raised, "safe")
    ELSE safe_report(code, analysis,
                     add_code_context(learned.mem, code, code, analysis.quality_score,
                                      <<>>, store))

\* handle_validate_code, the branch `if not analysis["has_errors"]`
validate_safe(code, analysis, m, store) ==
    IF ~HasKey(analysis, "quality_patterns") THEN validation_failed(m, "KeyError", "safe")
    ELSE safe_store(code, analysis,
                    learn_all(m, analysis.quality_patterns, analysis.quality_score, store),
                    store)

\* "Buoc G": the report of the enhanced workflow
improved_report(code, analysis, safe_patterns, safe_code, safe_analysis, stored) ==
    IF stored.raised # "none" THEN validation_failed(stored.mem, stored.raised, "learn")
    ELSE IF ~HasKey(safe_analysis, "quality_patterns") \/ ~HasKey(analysis, "context_length")
    THEN validation_failed(stored.mem, "KeyError", "result")
    ELSE [mem |-> stored.mem,
          out |-> [status |-> "improved",
                   original_code |-> code,
                   safe_code |-> safe_code,
                   detected_errors |-> analysis.errors,
                   safe_patterns_used |-> Len(safe_patterns),
                   quality_analysis |->
                      [original_score |-> analysis.quality_score,
                       improved_score |-> safe_analysis.quality_score,
                       improvement |-> safe_analysis.quality_score - analysis.quality_score,
                       quality_patterns_learned |-> Len(safe_analysis.quality_patterns)],
                   context_insights |->
                      [similar_contexts_used |-> Len(analysis.similar_contexts),
                       recommendations_applied |-> Len(analysis.recommendations),
                       memory_size |-> analysis.context_length],
                   analysis |-> analysis.analysis]]

\* the learning loop that follows add_code_context in the enhanced workflow
learn_improved(added, safe_analysis, store) ==
    IF added.raised # "none" THEN added
    ELSE learn_all(added.mem, safe_analysis.quality_patterns,
                   safe_analysis.quality_score, store)

\* `if improvement_score > 0:` and what it guards
store_improvement(code, safe_code, analysis, safe_analysis, m, store) ==
    IF safe_analysis.quality_score - analysis.quality_score > 0
    THEN IF ~HasKey(safe_analysis, "quality_patterns")
         THEN [mem |-> m, raised |-> "KeyError"]
         ELSE learn_improved(
                add_code_context(m, code, safe_code, safe_analysis.quality_score,
                                 pattern_codes(safe_analysis.quality_patterns), store),
                safe_analysis, store)
    ELSE [mem |-> m, raised |-> "none"]

\* the enhanced workflow once generate_context_aware_code has returned
validate_generated(code, analysis, safe_patterns, m, store, generated, safe_analysis) ==
    IF generated.raised # "none"
    THEN validation_failed(m, generated.raised, "generate_context_aware_code")
    ELSE improved_report(code, analysis, safe_patterns, generated.value, safe_analysis,
            store_improvement(code, generated.value, analysis, safe_analysis, m, store))

\* "Buoc F" and the second analysis, of the code it produced
validate_transform(code, analysis, safe_patterns, m, store, generated) ==
    validate_generated(code, analysis, safe_patterns, m, store, generated,
        IF generated.raised # "none" THEN <<>>
        ELSE analyze_with_context(generated.value, m.window))

\* the enhanced workflow once create_enhanced_context has returned
validate_enhanced(code, analysis, safe_patterns, m, store, enhanced) ==
    IF enhanced.raised # "none"
    THEN validation_failed(m, enhanced.raised, "create_enhanced_context")
    ELSE validate_transform(code, analysis, safe_patterns, m, store,
                            generate_context_aware_code(code, enhanced.value))

\* handle_validate_code from "Buoc E" on: the enhanced workflow once
\* query_safe_patterns has returned safe_patterns
validate_improve(code, analysis, safe_patterns, m, store) ==
    validate_enhanced(code, analysis, safe_patterns, m, store,
                      create_enhanced_context(code, analysis, safe_patterns, m))

\* [error["type"] for error in analysis["errors"]]
error_types_of(errors) == [i \in 1..Len(errors) |-> errors[i].type]

\* handle_validate_code after "Buoc C", up to the call of collection.query
validate_analysed(code, analysis, m, store, chromadb) ==
    IF ~analysis.has_errors
    THEN [done |-> TRUE] @@ validate_safe(code, analysis, m, store)
    ELSE IF queries_index(error_types_of(analysis.errors), chromadb)
    THEN [done |-> FALSE, mem |-> m, out |-> <<>>]
    ELSE [done |-> TRUE]
         @@ validate_improve(code, analysis,
                query_safe_patterns_result(error_types_of(analysis.errors), <<>>),
                m, store)

\* handle_validate_code up to the call of collection.query: either the
\* handler has returned (done, with [mem, out]) or it is inside
\* query_safe_patterns waiting for the index
validate_code_begin(code, m, store, chromadb) ==
    IF IsBlank(code)
    THEN [done |-> TRUE, mem |-> m,
          out |-> ErrorOut("No code provided", "none", "none")]
    ELSE validate_analysed(code, analyze_with_context(code, m.window), m, store, chromadb)

\* the enhanced workflow with the patterns of the answered query
validate_answered(code, analysis, documents, m, store) ==
    validate_improve(code, analysis,
        query_safe_patterns_result(error_types_of(analysis.errors), documents),
        m, store)

\* handle_validate_code after collection.query answered `documents`
validate_code_resume(code, documents, m, store) ==
    validate_answered(code, analyze_with_context(code, m.window), documents, m, store)

\* the except clause of handle_learn_from_code
learning_failed(mem, exception) ==
    [mem |-> mem, out |-> ErrorOut("Learning failed", exception, "learn")]

\* handle_learn_from_code after add_code_context: the report
learn_report(code, quality_score, analysis, added) ==
    IF added.raised # "none" THEN learning_failed(added.mem, added.raised)
    ELSE [mem |-> added.mem,
          out |-> [status |-> "learned",
                   code |-> code,
                   quality_score |-> quality_score,
                   patterns_learned |-> analysis.quality_patterns,
                   memory_size |-> Len(added.mem.window)]]

\* handle_learn_from_code after the learning loop
learn_store(code, quality_score, analysis, learned, store) ==
    IF learned.raised # "none" THEN learning_failed(learned.mem, learned.raised)
    ELSE learn_report(code, quality_score, analysis,
            add_code_context(learned.mem, code, code, quality_score,
                             pattern_codes(analysis.quality_patterns), store))

\* handle_learn_from_code after the analysis
learn_analysed(code, quality_score, analysis, m, store) ==
    IF ~HasKey(analysis, "quality_patterns") THEN learning_failed(m, "KeyError")
    ELSE learn_store(code, quality_score, analysis,
                     learn_all(m, analysis.quality_patterns, quality_score, store), store)

\* PythonCodeQualityServer.handle_learn_from_code
handle_learn_from_code(code, quality_score, m, store) ==
    IF IsBlank(code) THEN [mem |-> m, out |-> ErrorOut("No code provided", "none", "none")]
    ELSE learn_analysed(code, quality_score, analyze_with_context(code, m.window), m, store)

RECURSIVE SumScores(_)
SumScores(rows) ==
    IF rows = <<>> THEN 0 ELSE Head(rows).quality_score + SumScores(Tail(rows))

\* PythonCodeQualityServer.handle_get_context_insights; the average is
\* round(AVG(quality_score), 2) in hundredths of a point
handle_get_context_insights(m, store) ==
    IF store = "unavailable"
    THEN [mem |-> m, out |-> ErrorOut("Context insights failed", "OperationalError", "insights")]
    ELSE [mem |-> m,
          out |-> [context_insights |->
                     [active_memory_size       |-> Len(m.window),
                      total_code_history       |-> Len(m.history),
                      average_quality_score    |->
                          IF m.history = <<>> THEN 0
                          ELSE (20 * SumScores(m.history) + Len(m.history))
                               \div (2 * Len(m.history)),
                      quality_patterns_learned |-> Len(m.patterns),
                      pattern_statistics       |->
                          {[type  |-> t,
                            count |-> Cardinality({i \in 1..Len(m.table) :
                                                     m.table[i].pattern_type = t})] :
                             t \in {m.table[i].pattern_type : i \in 1..Len(m.table)}}],
                   memory_status |-> "active"]]

-----------------------------------------------------------------------------
(* CodeMemoryManager: reading the memory back                              *)

\* LIMIT 10 of get_quality_recommendations
RecommendationLimit == 10

\* GROUP BY pattern_type, pattern_code over the rows WHERE pattern_type IN
\* (pattern_types): the groups, and the rows of one group
pattern_groups(table, pattern_types) ==
    { <<table[i].pattern_type, table[i].pattern_code>> :
        i \in {j \in 1..Len(table) :
                 \E k \in 1..Len(pattern_types) : table[j].pattern_type = pattern_types[k]} }

group_rows(table, group) ==
    {i \in 1..Len(table) : <<table[i].pattern_type, table[i].pattern_code>> = group}

\* the dictionaries a group can be reported as: COUNT(*) is the size of the
\* group, the bare column quality_score is taken from any one of its rows
recommendation_rows(table, pattern_types) ==
    UNION { { [type           |-> group[1],
               code           |-> group[2],
               score          |-> table[i].quality_score,
               frequency      |-> Cardinality(group_rows(table, group)),
               recommendation |-> <<"Consider pattern '", group[1], "' with score ",
                                    table[i].quality_score>>] :
               i \in group_rows(table, group) } :
            group \in pattern_groups(table, pattern_types) }

\* ORDER BY frequency DESC, quality_score DESC
recommendation_order(first, second) ==
    \/ first.frequency > second.frequency
    \/ first.frequency = second.frequency /\ first.score >= second.score

\* CodeMemoryManager.get_quality_recommendations: the lists it can return,
\* one dictionary per group, in an order the ORDER BY allows, cut at LIMIT
get_quality_recommendations(table, pattern_types) ==
    { Take(rows, RecommendationLimit) :
        rows \in { r \in [1..Cardinality(pattern_groups(table, pattern_types))
                           -> recommendation_rows(table, pattern_types)] :
                     \A i, j \in DOMAIN r :
                        i < j => /\ <<r[i].type, r[i].code>> # <<r[j].type, r[j].code>>
                                 /\ recommendation_order(r[i], r[j]) } }

\* the \w+ words of each token, in lower case: re.findall(r'\b\w+\b', ...)
\* on code.lower(); no two neighbouring tokens of a snippet join into a word
TokenWords(tok) ==
    CASE tok = "\"\"\"doc\"\"\"" -> {"doc"}
      [] tok = "def " -> {"def"}
      [] tok = "f" -> {"f"}
      [] tok = "g" -> {"g"}
      [] tok = "a" -> {"a"}
      [] tok = "b" -> {"b"}
      [] tok = "s" -> {"s"}
      [] tok = "p" -> {"p"}
      [] tok = "x" -> {"x"}
      [] tok = "y" -> {"y"}
      [] tok = "z" -> {"z"}
      [] tok = "h" -> {"h"}
      [] tok = "int" -> {"int"}
      [] tok = "return " -> {"return"}
      [] tok = "note" -> {"note"}
      [] tok = "'@functools.lru_cache'" -> {"functools", "lru_cache"}
      [] tok = "'Recursion'" -> {"recursion"}
      [] tok = "for _ in range(" -> {"_", "for", "in", "range"}
      [] tok = "3" -> {"3"}
      [] tok = "pass" -> {"pass"}
      [] tok = "a, b = b, a" -> {"a", "b"}
      [] tok = "eval(" -> {"eval"}
      [] tok = "0" -> {"0"}
      [] tok = "open(" -> {"open"}
      [] tok = "try:" -> {"try"}
      [] tok = "except:" -> {"except"}
      [] tok = "ast.literal_eval(" -> {"ast", "literal_eval"}
      [] tok = "ast.literal_ast.literal_eval(" -> {"ast", "literal_ast", "literal_eval"}
      [] tok = "ast.literal_ast.literal_ast.literal_eval(" -> {"ast", "literal_ast", "literal_eval"}
      [] tok = "ast.literal_ast.literal_ast.literal_ast.literal_eval(" -> {"ast", "literal_ast", "literal_eval"}
      [] tok = "import ast" -> {"ast", "import"}
      [] tok = "except Exception as e:" -> {"as", "e", "except", "exception"}
      [] tok = "except ZeroDivisionError:" -> {"except", "zerodivisionerror"}
      [] tok = "print(\"Warning: Division by zero avoided\")" -> {"avoided", "by", "division", "print", "warning", "zero"}
      [] tok = "result = float(\"inf\")" -> {"float", "inf", "result"}
      [] tok = "with " -> {"with"}
      [] tok = "# File operations here" -> {"file", "here", "operations"}
      [] tok = "except (FileNotFoundError, PermissionError):" -> {"except", "filenotfounderror", "permissionerror"}
      [] tok = "pass  # Handle file errors" -> {"errors", "file", "handle", "pass"}
      [] OTHER -> {}

\* set(re.findall(r'\b\w+\b', code.lower()))
code_keywords(code) ==
    UNION { UNION { TokenWords(code[l][i]) : i \in 1..Len(code[l]) } : l \in 1..Len(code) }

RECURSIVE GCD(_, _)
GCD(a, b) == IF b = 0 THEN a ELSE GCD(b, a % b)

\* a float that is the quotient of two small integers, in lowest terms
Quotient(num, den) == [num |-> num \div GCD(num, den), den |-> den \div GCD(num, den)]

\* first >= second on such floats
AtLeast(first, second) == first.num * second.den >= second.num * first.den

\* intersection / union if union > 0 else 0
jaccard_similarity(code_words, context_words) ==
    IF Cardinality(code_words \cup context_words) > 0
    THEN Quotient(Cardinality(code_words \cap context_words),
                  Cardinality(code_words \cup context_words))
    ELSE Quotient(0, 1)

\* similarity_threshold: float = 0.7, and LIMIT 50; thresholds are written
\* in tenths
DefaultThreshold == 7
ContextLimit == 50

RECURSIVE rows_by_score(_, _)
\* ORDER BY quality_score DESC: the orders in which the rows numbered in
\* `remaining` can come out; rows of equal score come in any order
rows_by_score(history, remaining) ==
    IF remaining = {} THEN { <<>> }
    ELSE UNION { { <<history[i]>> \o rest : rest \in rows_by_score(history, remaining \ {i}) } :
                 i \in { j \in remaining :
                           \A k \in remaining :
                              history[j].quality_score >= history[k].quality_score } }

\* SELECT ... FROM code_history ORDER BY quality_score DESC LIMIT 50
candidate_rows(history) ==
    { Take(rows, ContextLimit) : rows \in rows_by_score(history, 1..Len(history)) }

RECURSIVE similar_rows(_, _, _)
\* the loop over cursor.fetchall(): the rows at or above the threshold, each
\* with its similarity
similar_rows(rows, code_words, threshold) ==
    IF rows = <<>> THEN <<>>
    ELSE LET similarity == jaccard_similarity(code_words,
                                              code_keywords(Head(rows).original_code))
             rest == similar_rows(Tail(rows), code_words, threshold)
         IN  IF AtLeast(similarity, Quotient(threshold, 10))
             THEN << [id            |-> Head(rows).id,
                      original_code |-> Head(rows).original_code,
                      safe_code     |-> Head(rows).safe_code,
                      quality_score |-> Head(rows).quality_score,
                      similarity    |-> similarity] >> \o rest
             ELSE rest

\* the place of an item in a list sorted by similarity, largest first: after
\* the items that are not smaller
insert_by_similarity(sorted, item) ==
    LET before == Cardinality({i \in 1..Len(sorted) :
                                 AtLeast(sorted[i].similarity, item.similarity)})
    IN  SubSeq(sorted, 1, before) \o <<item>> \o SubSeq(sorted, before + 1, Len(sorted))

RECURSIVE sorted_by_similarity(_)
\* sorted(similar, key=lambda x: x["similarity"], reverse=True), a stable sort
sorted_by_similarity(similar) ==
    IF similar = <<>> THEN <<>>
    ELSE insert_by_similarity(sorted_by_similarity(SubSeq(similar, 1, Len(similar) - 1)),
                              similar[Len(similar)])

\* CodeMemoryManager.get_similar_contexts on the rows the SELECT returned
get_similar_contexts(rows, code, threshold) ==
    sorted_by_similarity(similar_rows(rows, code_keywords(code), threshold))

\* SELECT COUNT(*), AVG(quality_score), MAX(quality_score), MIN(quality_score)
\* FROM code_history: the aggregates of an empty table are 0 and NULL
history_stats(history) ==
    LET scores == {history[i].quality_score : i \in 1..Len(history)}
    IN  [total_contexts |-> Len(history),
         avg_quality    |-> IF history = <<>> THEN "None"
                            ELSE Quotient(SumScores(history), Len(history)),
         max_quality    |-> IF history = <<>> THEN "None"
                            ELSE CHOOSE s \in scores : \A t \in scores : s >= t,
         min_quality    |-> IF history = <<>> THEN "None"
                            ELSE CHOOSE s \in scores : \A t \in scores : s <= t]

\* SELECT pattern_type, COUNT(*), AVG(quality_score) FROM quality_patterns
\* GROUP BY pattern_type: one dictionary per type
pattern_stats(table) ==
    { [type      |-> t,
       count     |-> Len(SelectSeq(table, LAMBDA row : row.pattern_type = t)),
       avg_score |-> Quotient(SumScores(SelectSeq(table, LAMBDA row : row.pattern_type = t)),
                              Len(SelectSeq(table, LAMBDA row : row.pattern_type = t)))] :
        t \in {table[i].pattern_type : i \in 1..Len(table)} }

\* CodeMemoryManager.get_context_insights: the dictionary built from the
\* result of the first SELECT, the result of the second and the window
get_context_insights(stats, patterns, window) ==
    [total_contexts |-> stats.total_contexts,
     avg_quality    |-> stats.avg_quality,
     max_quality    |-> stats.max_quality,
     min_quality    |-> stats.min_quality,
     pattern_stats  |-> patterns,
     memory_size    |-> Len(window)]

-----------------------------------------------------------------------------
(* Inputs                                                                  *)

\* number of add_code_context calls in a run of the memory manager
MaxCalls == 52

\* only the first and the last MaxVaried records of such a run differ from
\* the filler record
MaxVaried == 1

\* number of learn_quality_pattern calls in a run of the memory manager
MaxLearn == 1

BlankCode == << <<" ">>, <<>> >>
CleanCode == << DocLine, HintLine >>
AllIssues == << EvalLine, DivZeroLine, TryLine, ExceptLine, OpenLine >>

\* the snippets sent to the tools
ToolCodes ==
    { EmptyCode, BlankCode, CleanCode, <<DefLine>>, <<DivLine>>, <<EvalLine>>,
      <<DivZeroLine>>, <<OpenLine>>, <<TryLine, ExceptLine>>, <<BadLine>>, AllIssues }

\* quality_score arguments of learn_from_code, in tenths
ToolScores == {850, 950}

\* the error types analyze_code reports, in the order it reports them: the
\* syntax error first, then the patterns in the order of error_patterns
KindOrder == << "syntax_error", "division_by_zero", "no_exception_handling",
               "eval_usage", "bare_except" >>

QueryTypes == {KindOrder[i] : i \in 1..Len(KindOrder)}

\* the lists of up to MaxTypes error types handed to query_safe_patterns:
\* each type at most once, in the order of analyze_code
QueryLists ==
    {SelectSeq(KindOrder, LAMBDA t : t \in kinds) :
        kinds \in {K \in SUBSET QueryTypes : Cardinality(K) <= MaxTypes}}

\* arguments of add_code_context in a run of the memory manager
Filler == [code |-> <<DefLine>>, safe_code |-> <<DefLine>>, score |-> 800, patterns |-> <<>>]

AddInputs ==
    { Filler,
      [Filler EXCEPT !.code = <<EvalLine>>, !.safe_code = fix_eval(<<EvalLine>>)],
      [Filler EXCEPT !.score = 500],
      [Filler EXCEPT !.patterns = << [str |-> "pattern_0"] >>],
      [Filler EXCEPT !.patterns = << [type |-> "eval_usage", code |-> "c"] >>],
      [Filler EXCEPT !.patterns = << [str |-> "pattern_0"], [type |-> "eval_usage"] >>] }

LearnInputs ==
    { [type |-> "eval_usage", code |-> "c", score |-> 900],
      [type |-> "bare_except", code |-> "c", score |-> 900] }

\* number of learn_quality_pattern calls, and of add_code_context calls, in
\* a run that reads the memory back
MaxRelearn == 3
MaxStored == 1

\* pattern_types arguments of get_quality_recommendations
RecallTypes ==
    { <<>>, <<"eval_usage">>, <<"bare_except", "eval_usage">>, <<"pattern_0">> }

\* number of records stored before similar contexts are asked for
MaxKept == 2

\* the snippets stored and asked about: word sets that are equal, that
\* overlap, that are disjoint, and that are empty
KeptCodes == { <<DefLine>>, <<HintLine>>, <<EvalLine>>, <<DivZeroLine>>, EmptyCode }

\* a score for each stored snippet, in tenths
kept_score(code) ==
    CASE code = <<DefLine>> -> 800
      [] code = <<HintLine>> -> 900
      [] code = <<EvalLine>> -> 200
      [] code = <<DivZeroLine>> -> 350
      [] OTHER -> 500

KeptInputs ==
    { [code |-> code, safe_code |-> code, score |-> kept_score(code), patterns |-> <<>>] :
        code \in KeptCodes }
    \cup { [code |-> <<DefLine>>, safe_code |-> <<DefLine>>, score |-> 500, patterns |-> <<>>] }

\* arguments of get_similar_contexts: the threshold left out, or given
SimilarArgs ==
    { [code |-> code] : code \in KeptCodes }
    \cup { [code |-> code, similarity_threshold |-> 0] : code \in KeptCodes }
    \cup { [code |-> <<DefLine>>, similarity_threshold |-> threshold] :
             threshold \in {5, 10} }

\* the snippets handed to generate_safe_code: those of the family whose
\* lines the fixers act on, and two that divide by a variable
FixCodes ==
    { Assemble(c) : c \in {x \in Choices : ~x.cache /\ ~x.rec /\ ~x.swap /\ ~x.loop} }
    \cup { <<DivLine>>, <<RatioLine>> }

\* a documented, type-annotated function of several lines with a handled
\* exception, without and with a comment
HandledCodes ==
    { << DocLine, HintLine, TryLine, HandledLine >>,
      << DocLine, HintLine, CommentLine, TryLine, HandledLine >> }

\* number of corrections stored before snippets are analysed
MaxCorrections == 2

\* corrections: a snippet with an issue, the code made of it, a score of 90
\* or more; the third has a bare except around its eval call
CorrectionInputs ==
    { [code |-> <<EvalLine>>, safe_code |-> fix_eval(<<EvalLine>>), score |-> 900,
       patterns |-> <<>>],
      [code |-> <<OpenLine>>, safe_code |-> fix_file_ops(<<OpenLine>>), score |-> 950,
       patterns |-> << [str |-> "pattern_0"] >>],
      [code |-> <<EvalLine, TryLine, ExceptLine>>,
       safe_code |-> fix_bare_except(fix_eval(<<EvalLine, TryLine, ExceptLine>>)),
       score |-> 900, patterns |-> <<>>] }

\* the snippets analysed afterwards
AskedCodes == { <<EvalLine>>, <<OpenLine>>, <<DefLine>>, <<EvalLine, OpenLine>>, CleanCode }

\* records stored through one manager or the other on a shared database file
MaxShared == 3

SharedInputs ==
    { [code |-> <<DefLine>>, safe_code |-> <<DefLine>>, score |-> 800,
       patterns |-> << [str |-> "pattern_0"] >>],
      [code |-> <<EvalLine>>, safe_code |-> fix_eval(<<EvalLine>>), score |-> 600,
       patterns |-> << [str |-> "pattern_1"], [type |-> "eval_usage", code |-> "c"] >>] }

\* the kinds generate_safe_code has a fixer for
FixKinds == {"division_by_zero", "no_exception_handling", "eval_usage", "bare_except"}

\* the detected_issues lists handed to generate_safe_code for a snippet: its
\* issues in every order, and one issue of a kind the snippet does not have
IssueLists(code) ==
    LET errors == analyze_code(code).errors
    IN  { [i \in DOMAIN errors |-> errors[p[i]]] : p \in Permutations(DOMAIN errors) }
        \cup { << [type |-> kind, line |-> 1, severity |-> "high"] >> :
                 kind \in FixKinds \ {errors[i].type : i \in DOMAIN errors} }

OrderInputs ==
    UNION { { [op |-> "generate_safe_code", code |-> code, detected_issues |-> issues] :
                issues \in IssueLists(code) } :
            code \in {CleanCode, <<EvalLine>>, <<OpenLine, DivZeroLine>>,
                      <<EvalLine, DivZeroLine>>, <<TryLine, ExceptLine, OpenLine>>,
                      <<EvalLine, OpenLine, DivZeroLine>>, <<DivZeroLine>>, <<OpenLine>>,
                      AllIssues} }

\* records stored in a run that fills the history past the LIMIT of
\* get_similar_contexts
MaxRows == 52

\* at most this many of them carry the low score
MaxLow == 1

\* the record stored next: one more record of a score no other record has,
\* or the snippet asked about later, with a low score
LimitInputs(history) ==
    { [code |-> <<HintLine>>, safe_code |-> <<HintLine>>,
       score |-> 1000 - Len(history), patterns |-> <<>>] }
    \cup { [code |-> <<DefLine>>, safe_code |-> <<DefLine>>, score |-> 100, patterns |-> <<>>] :
             x \in IF Len(SelectSeq(history, LAMBDA row : row.quality_score = 100)) < MaxLow
                   THEN {1} ELSE {} }

LimitArgs ==
    { [code |-> <<DefLine>>], [code |-> <<DefLine>>, similarity_threshold |-> 10] }

-----------------------------------------------------------------------------
(* Actions                                                                 *)

MemoryUnchanged == UNCHANGED <<context_window, quality_patterns, code_history, pattern_table>>
ServerUnchanged == UNCHANGED <<engine, has_chromadb>>
EnvUnchanged == UNCHANGED <<store_env, index_env>>

\* PythonCodeQualityServer.__init__: ChromaDBManager(config), then
\* CodeMemoryManager(db_path), whose sqlite3.connect raises when the
\* database cannot be opened; nothing catches it
server_init ==
    /\ engine = "unbuilt"
    /\ has_chromadb' = chroma_init(index_env)
    /\ engine' = IF store_env = "ok" THEN "running" ELSE "aborted"
    /\ arg' = [op |-> "init"]
    /\ ret' = [op |-> "init", raised |-> IF store_env = "ok" THEN "none" ELSE "OperationalError"]
    /\ UNCHANGED <<pc, calls>>
    /\ MemoryUnchanged /\ EnvUnchanged

\* the database becomes unusable (file removed, locked, disk full) ...
store_fails ==
    /\ store_env = "ok"
    /\ store_env' = "unavailable"
    /\ UNCHANGED <<index_env, pc, arg, ret, calls>>
    /\ MemoryUnchanged /\ ServerUnchanged

\* ... and usable again
store_recovers ==
    /\ store_env = "unavailable"
    /\ store_env' = "ok"
    /\ UNCHANGED <<index_env, pc, arg, ret, calls>>
    /\ MemoryUnchanged /\ ServerUnchanged

\* a handler returns: its JSON object to the caller, its writes in the memory
Respond(op, r) ==
    /\ ret' = [op |-> op, out |-> r.out]
    /\ SetMemory(r.mem)

\* handle_validate_code returns, or waits inside query_safe_patterns
validate_code_enter(r) ==
    IF r.done
    THEN /\ pc' = "idle"
         /\ Respond("validate_code", r)
    ELSE /\ pc' = "in_query"
         /\ ret' = [op |-> "pending"]
         /\ MemoryUnchanged

\* tools/call validate_code
handle_validate_code_call(code) ==
    /\ engine = "running" /\ pc = "idle"
    /\ arg' = [op |-> "validate_code", code |-> code]
    /\ validate_code_enter(validate_code_begin(code, Memory, store_env, has_chromadb))
    /\ UNCHANGED calls
    /\ ServerUnchanged /\ EnvUnchanged

\* ChromaDBManager.query_safe_patterns called on its own
query_safe_patterns_call(error_types) ==
    /\ engine = "running" /\ pc = "idle"
    /\ arg' = [op |-> "query_safe_patterns", error_types |-> error_types]
    /\ IF queries_index(error_types, has_chromadb)
       THEN /\ pc' = "in_query"
            /\ ret' = [op |-> "pending"]
       ELSE /\ pc' = "idle"
            /\ ret' = [op |-> "query_safe_patterns", raised |-> "none",
                       patterns |-> query_safe_patterns_result(error_types, <<>>)]
    /\ UNCHANGED calls
    /\ MemoryUnchanged /\ ServerUnchanged /\ EnvUnchanged

\* the caller of collection.query goes on with the documents it got
Resume(documents) ==
    IF arg.op = "validate_code"
    THEN Respond("validate_code",
                 validate_code_resume(arg.code, documents, Memory, store_env))
    ELSE /\ ret' = [op |-> "query_safe_patterns", raised |-> "none",
                    patterns |-> query_safe_patterns_result(arg.error_types, documents)]
         /\ MemoryUnchanged

\* collection.query returns documents
index_query_answers ==
    /\ pc = "in_query"
    /\ index_env = "ok"
    /\ \E documents \in IndexAnswers(n_results(
              IF arg.op = "validate_code"
              THEN error_types_of(analyze_code(arg.code).errors)
              ELSE arg.error_types)) :
          Resume(documents)
    /\ pc' = "idle"
    /\ UNCHANGED <<arg, calls>>
    /\ ServerUnchanged /\ EnvUnchanged

\* collection.query raises; query_safe_patterns logs a warning and goes on
index_query_raises ==
    /\ pc = "in_query"
    /\ index_env = "query_raises"
    /\ Resume(<<>>)
    /\ pc' = "idle"
    /\ UNCHANGED <<arg, calls>>
    /\ ServerUnchanged /\ EnvUnchanged

\* tools/call learn_from_code
handle_learn_from_code_call(code, quality_score) ==
    /\ engine = "running" /\ pc = "idle"
    /\ arg' = [op |-> "learn_from_code", code |-> code, quality_score |-> quality_score]
    /\ Respond("learn_from_code",
               handle_learn_from_code(code, quality_score, Memory, store_env))
    /\ UNCHANGED <<pc, calls>>
    /\ ServerUnchanged /\ EnvUnchanged

\* tools/call get_context_insights
handle_get_context_insights_call ==
    /\ engine = "running" /\ pc = "idle"
    /\ arg' = [op |-> "get_context_insights"]
    /\ Respond("get_context_insights", handle_get_context_insights(Memory, store_env))
    /\ UNCHANGED <<pc, calls>>
    /\ ServerUnchanged /\ EnvUnchanged

\* CodeMemoryManager.add_code_context called on the manager
add_code_context_call(in) ==
    /\ engine = "running" /\ pc = "idle"
    /\ LET r == add_code_context(Memory, in.code, in.safe_code, in.score, in.patterns, store_env)
       IN  /\ arg' = [op |-> "add_code_context", in |-> in]
           /\ ret' = [op |-> "add_code_context", raised |-> r.raised]
           /\ calls' = IF r.raised = "none" THEN calls + 1 ELSE calls
           /\ SetMemory(r.mem)
    /\ UNCHANGED pc
    /\ ServerUnchanged /\ EnvUnchanged

\* CodeMemoryManager.learn_quality_pattern called on the manager
learn_quality_pattern_call(in) ==
    /\ engine = "running" /\ pc = "idle"
    /\ LET r == learn_quality_pattern(Memory, in.type, in.code, in.score, store_env)
       IN  /\ arg' = [op |-> "learn_quality_pattern", in |-> in]
           /\ ret' = [op |-> "learn_quality_pattern", raised |-> r.raised]
           /\ SetMemory(r.mem)
    /\ UNCHANGED <<pc, calls>>
    /\ ServerUnchanged /\ EnvUnchanged

\* an analysis that also remembers the snippet it analysed
analyze_with_context_recording ==
    /\ arg.op = "analyze_with_context" /\ ret.op = "pending"
    /\ ret' = [op |-> "analyze_with_context",
               out |-> analyze_with_context(arg.code, context_window)]
    /\ pc' = "idle"
    /\ context_window' = deque_append(context_window,
                            [id |-> 0, code |-> arg.code, safe_code |-> arg.code,
                             score |-> ret'.out.quality_score, patterns |-> <<>>])
    /\ UNCHANGED <<arg, calls, quality_patterns, code_history, pattern_table>>
    /\ ServerUnchanged /\ EnvUnchanged

\* EnhancedCodeAnalyzer.analyze_with_context returns for the snippet it was
\* called with
analyze_with_context_call ==
    /\ arg.op = "analyze_with_context" /\ ret.op = "pending"
    /\ ret' = [op |-> "analyze_with_context",
               out |-> analyze_with_context(arg.code, context_window)]
    /\ pc' = "idle"
    /\ UNCHANGED <<arg, calls>>
    /\ MemoryUnchanged /\ ServerUnchanged /\ EnvUnchanged

\* CodeMemoryManager.get_quality_recommendations called on the manager
get_quality_recommendations_call(pattern_types) ==
    /\ engine = "running" /\ pc = "idle"
    /\ arg' = [op |-> "get_quality_recommendations", pattern_types |-> pattern_types]
    /\ IF store_env = "unavailable"
       THEN ret' = [op |-> "get_quality_recommendations", raised |-> "OperationalError",
                    out |-> <<>>]
       ELSE \E recommendations \in get_quality_recommendations(pattern_table, pattern_types) :
               ret' = [op |-> "get_quality_recommendations", raised |-> "none",
                       out |-> recommendations]
    /\ UNCHANGED <<pc, calls>>
    /\ MemoryUnchanged /\ ServerUnchanged /\ EnvUnchanged

\* the threshold of a call: the keyword argument, or the default
threshold_of(given) ==
    IF HasKey(given, "similarity_threshold") THEN given.similarity_threshold
    ELSE DefaultThreshold

\* CodeMemoryManager.get_similar_contexts called on the manager
get_similar_contexts_call(given) ==
    /\ engine = "running" /\ pc = "idle"
    /\ arg' = [op |-> "get_similar_contexts", given |-> given]
    /\ IF store_env = "unavailable"
       THEN ret' = [op |-> "get_similar_contexts", raised |-> "OperationalError",
                    rows |-> <<>>, out |-> <<>>]
       ELSE \E rows \in candidate_rows(code_history) :
               ret' = [op |-> "get_similar_contexts", raised |-> "none",
                       rows |-> rows,
                       out |-> get_similar_contexts(rows, given.code, threshold_of(given))]
    /\ UNCHANGED <<pc, calls>>
    /\ MemoryUnchanged /\ ServerUnchanged /\ EnvUnchanged

\* the middleware's answer for a snippet: the analysis, the code
\* generate_safe_code made of it, and the analysis of that code
safe_code_report(analysis, safe_code) ==
    [op |-> "generate_safe_code", analysis |-> analysis, safe_code |-> safe_code,
     safe_analysis |-> analyze_code(safe_code)]

\* MCPMiddleware.generate_safe_code on the context create_mcp_context builds
\* from the analysis and the catalogue's templates
generate_safe_code_run(code, analysis) ==
    safe_code_report(analysis,
        generate_safe_code(code,
            create_mcp_context(code, analysis.errors,
                query_safe_patterns_result(error_types_of(analysis.errors), <<>>))))

\* MCPMiddleware.generate_safe_code returns for the snippet it was called with
generate_safe_code_call ==
    /\ arg.op = "generate_safe_code" /\ ret.op = "pending"
    /\ ret' = generate_safe_code_run(arg.code, analyze_code(arg.code))
    /\ UNCHANGED <<arg, pc, calls>>
    /\ MemoryUnchanged /\ ServerUnchanged /\ EnvUnchanged

\* EnhancedCodeAnalyzer.analyze_with_context is called with a snippet
analyze_with_context_begin(code) ==
    /\ engine = "running" /\ pc = "idle"
    /\ arg' = [op |-> "analyze_with_context", code |-> code]
    /\ ret' = [op |-> "pending"]
    /\ pc' = "in_analysis"
    /\ UNCHANGED calls
    /\ MemoryUnchanged /\ ServerUnchanged /\ EnvUnchanged

\* the engine is restarted on the same database file: CodeMemoryManager.__init__
\* makes an empty deque and an empty list and creates no table that exists
memory_restart ==
    /\ engine = "running" /\ pc = "idle"
    /\ store_env = "ok"
    /\ context_window # <<>> \/ quality_patterns # <<>>
    /\ context_window' = <<>>
    /\ quality_patterns' = <<>>
    /\ UNCHANGED <<code_history, pattern_table, arg, ret, pc, calls>>
    /\ ServerUnchanged /\ EnvUnchanged

\* CodeMemoryManager.get_context_insights, up to the first fetchone(): the
\* SELECT on code_history runs in autocommit mode, in a transaction of its own
get_context_insights_begin ==
    /\ engine = "running" /\ pc = "idle"
    /\ arg' = [op |-> "memory.get_context_insights"]
    /\ IF store_env = "unavailable"
       THEN /\ ret' = [op |-> "memory.get_context_insights", raised |-> "OperationalError"]
            /\ pc' = "idle"
       ELSE /\ ret' = [op |-> "pending", stats |-> history_stats(code_history)]
            /\ pc' = "in_insights"
    /\ UNCHANGED calls
    /\ MemoryUnchanged /\ ServerUnchanged /\ EnvUnchanged

\* ... and from the SELECT on quality_patterns to the return
get_context_insights_finish ==
    /\ pc = "in_insights"
    /\ ret' = [op |-> "memory.get_context_insights", raised |-> "none",
               out |-> get_context_insights(ret.stats, pattern_stats(pattern_table),
                                            context_window)]
    /\ pc' = "idle"
    /\ UNCHANGED <<arg, calls>>
    /\ MemoryUnchanged /\ ServerUnchanged /\ EnvUnchanged

\* add_code_context of another CodeMemoryManager on the same database file
\* (another server object, another thread): its rows are committed
\* together; its own window is a separate object this manager never reads
other_add_code_context(in) ==
    /\ engine = "running"
    /\ LET r == add_code_context([FreshMemory EXCEPT !.history = code_history,
                                                     !.table = pattern_table],
                                 in.code, in.safe_code, in.score, in.patterns, store_env)
       IN  /\ r.raised = "none"
           /\ code_history' = r.mem.history
           /\ pattern_table' = r.mem.table
    /\ UNCHANGED <<context_window, quality_patterns, arg, ret, pc, calls>>
    /\ ServerUnchanged /\ EnvUnchanged

\* another connection opens a read transaction on the database file: while
\* it holds its lock this manager's INSERTs run and its commits fail ...
reader_locks ==
    /\ store_env = "ok"
    /\ store_env' = "locked"
    /\ UNCHANGED <<index_env, pc, arg, ret, calls>>
    /\ MemoryUnchanged /\ ServerUnchanged

\* ... until the reader ends its transaction
reader_unlocks ==
    /\ store_env = "locked"
    /\ store_env' = "ok"
    /\ UNCHANGED <<index_env, pc, arg, ret, calls>>
    /\ MemoryUnchanged /\ ServerUnchanged

\* MCPMiddleware.generate_safe_code returns for the snippet and the list of
\* issues it was called with
generate_safe_code_issues_call ==
    /\ arg.op = "generate_safe_code" /\ ret.op = "pending"
    /\ ret' = [op |-> "generate_safe_code",
               safe_code |-> generate_safe_code(arg.code,
                                [context |-> [detected_issues |-> arg.detected_issues]])]
    /\ UNCHANGED <<arg, pc, calls>>
    /\ MemoryUnchanged /\ ServerUnchanged /\ EnvUnchanged

-----------------------------------------------------------------------------
(* Specifications                                                          *)

InitMemory ==
    /\ context_window = FreshMemory.window
    /\ quality_patterns = FreshMemory.patterns
    /\ code_history = FreshMemory.history
    /\ pattern_table = FreshMemory.table

\* the server: before construction, in any environment
Init ==
    /\ engine = "unbuilt"
    /\ has_chromadb = FALSE
    /\ store_env \in {"ok", "unavailable"}
    /\ index_env \in {"absent", "init_fails", "ok", "query_raises", "hangs"}
    /\ InitMemory
    /\ pc = "idle"
    /\ arg = [op |-> "none"]
    /\ ret = [op |-> "none"]
    /\ calls = 0

Next ==
    \/ server_init
    \/ store_fails
    \/ store_recovers
    \/ \E code \in ToolCodes : handle_validate_code_call(code)
    \/ \E code \in ToolCodes : \E score \in ToolScores : handle_learn_from_code_call(code, score)
    \/ handle_get_context_insights_call
    \/ \E error_types \in QueryLists : query_safe_patterns_call(error_types)
    \/ index_query_answers
    \/ index_query_raises

Spec == Init /\ [][Next]_vars

\* the event loop runs whatever handler step can run
FairSpec == Spec /\ WF_vars(Next)

\* the memory manager on a fresh database, called directly
InitMem ==
    /\ engine = "running"
    /\ has_chromadb = FALSE
    /\ store_env = "ok"
    /\ index_env = "absent"
    /\ InitMemory
    /\ pc = "idle"
    /\ arg = [op |-> "none"]
    /\ ret = [op |-> "none"]
    /\ calls = 0

\* a run of up to MaxCalls records, varied at its two ends, and MaxLearn
\* learnt patterns
NextMem ==
    \/ \E in \in AddInputs :
          /\ calls < MaxCalls
          /\ \/ in = Filler
             \/ Len(code_history) < MaxVaried
             \/ Len(code_history) + MaxVaried >= MaxCalls
          /\ add_code_context_call(in)
    \/ \E in \in LearnInputs :
          /\ Len(quality_patterns) < MaxLearn
          /\ learn_quality_pattern_call(in)
    \/ store_fails
    \/ store_recovers

MemSpec == InitMem /\ [][NextMem]_vars

\* the analyzer called with one snippet of the family, on an empty memory
InitScore ==
    /\ engine = "running"
    /\ has_chromadb = FALSE
    /\ store_env = "ok"
    /\ index_env = "absent"
    /\ InitMemory
    /\ pc = "idle"
    /\ arg \in {[op |-> "analyze_with_context", code |-> Assemble(c)] : c \in Choices}
               \cup {[op |-> "analyze_with_context", code |-> code] : code \in HandledCodes}
    /\ ret = [op |-> "pending"]
    /\ calls = 0

NextScore == analyze_with_context_call

ScoreSpec == InitScore /\ [][NextScore]_vars

\* the memory manager taught the same patterns again and again, and asked
\* for its recommendations
NextLearn ==
    \/ \E in \in LearnInputs :
          /\ Len(quality_patterns) < MaxRelearn
          /\ learn_quality_pattern_call(in)
    \/ \E in \in AddInputs :
          /\ calls < MaxStored
          /\ add_code_context_call(in)
    \/ \E pattern_types \in RecallTypes : get_quality_recommendations_call(pattern_types)
    \/ store_fails
    \/ store_recovers

LearnSpec == InitMem /\ [][NextLearn]_vars

\* the memory manager asked for the contexts similar to a snippet
NextSimilar ==
    \/ \E in \in KeptInputs :
          /\ calls < MaxKept
          /\ add_code_context_call(in)
    \/ \E given \in SimilarArgs : get_similar_contexts_call(given)
    \/ store_fails
    \/ store_recovers

SimilarSpec == InitMem /\ [][NextSimilar]_vars

\* the middleware called with one snippet
InitFix ==
    /\ engine = "running"
    /\ has_chromadb = FALSE
    /\ store_env = "ok"
    /\ index_env = "absent"
    /\ InitMemory
    /\ pc = "idle"
    /\ arg \in {[op |-> "generate_safe_code", code |-> code] : code \in FixCodes}
    /\ ret = [op |-> "pending"]
    /\ calls = 0

NextFix == generate_safe_code_call

FixSpec == InitFix /\ [][NextFix]_vars

\* the analyzer on a memory manager that stores corrections and is restarted
NextAnalyzer ==
    \/ \E in \in CorrectionInputs :
          /\ calls < MaxCorrections
          /\ add_code_context_call(in)
    \/ \E code \in AskedCodes : analyze_with_context_begin(code)
    \/ analyze_with_context_call
    \/ memory_restart

AnalyzerSpec == InitMem /\ [][NextAnalyzer]_vars

\* two managers on one database file, and a reader that comes and goes
NextShared ==
    \/ \E in \in SharedInputs :
          /\ Len(code_history) < MaxShared /\ Len(context_window) < MaxShared
          /\ add_code_context_call(in)
    \/ \E in \in SharedInputs :
          /\ Len(code_history) < MaxShared
          /\ other_add_code_context(in)
    \/ get_context_insights_begin
    \/ get_context_insights_finish
    \/ reader_locks
    \/ reader_unlocks

SharedSpec == InitMem /\ [][NextShared]_vars

\* generate_safe_code called with a snippet and its issues in some order
InitOrder ==
    /\ engine = "running"
    /\ has_chromadb = FALSE
    /\ store_env = "ok"
    /\ index_env = "absent"
    /\ InitMemory
    /\ pc = "idle"
    /\ arg \in OrderInputs
    /\ ret = [op |-> "pending"]
    /\ calls = 0

NextOrder == generate_safe_code_issues_call

OrderSpec == InitOrder /\ [][NextOrder]_vars

\* a long run of records, and the snippet of one of them asked about
NextLimit ==
    \/ \E in \in LimitInputs(code_history) :
          /\ calls < MaxRows
          /\ add_code_context_call(in)
    \/ \E given \in LimitArgs : get_similar_contexts_call(given)

LimitSpec == InitMem /\ [][NextLimit]_vars

-----------------------------------------------------------------------------
(* Properties                                                              *)

\* the object a tool call returned carries the key
Returned(op) == ret.op = op
Has(key) == HasKey(ret.out, key)

C2_SafeOrImproved ==
    (Returned("validate_code") /\ ~IsBlank(arg.code))
        => /\ Has("status")
           /\ ret.out.status = IF analyze_code(arg.code).has_errors THEN "improved" ELSE "safe"

\* C3 as stated: whatever the snippet, validate_code returns a report that
\* carries a status and a quality score
C3_WellFormedReport ==
    Returned("validate_code")
        => Has("status") /\ (Has("quality_score") \/ Has("quality_analysis"))

\* C4 as stated: when producing the improved code raises (the assembling of
\* its context or the transformation), validate_code returns status improved
\* with the original code as improved code, a zero improvement and a warning
C4_TransformFailureDegrades ==
    (/\ Returned("validate_code")
     /\ Has("step")
     /\ ret.out.step \in {"create_enhanced_context", "generate_context_aware_code"})
        => /\ Has("status") /\ ret.out.status = "improved"
           /\ Has("safe_code") /\ ret.out.safe_code = arg.code
           /\ Has("quality_analysis") /\ ret.out.quality_analysis.improvement = 0
           /\ Has("warning")

\* C5 as stated: with the database unavailable the construction of the
\* server does not abort, and validate_code and learn_from_code do not
\* answer with the store's exception as an error
C5_StoreUnavailableNotFatal ==
    /\ engine # "aborted"
    /\ (ret.op \in {"validate_code", "learn_from_code"} /\ Has("exception"))
          => ret.out.exception # "OperationalError"

\* the requested types that are in the catalogue, in request order
RequestedKinds(error_types) == SelectSeq(error_types, LAMBDA t : t \in CatalogueTypes)

\* the index gave query_safe_patterns nothing: missing at import, failed at
\* initialisation, or raising at query time
IndexUnavailable == ~has_chromadb \/ index_env = "query_raises"

\* C6, amended: query_safe_patterns never raises and returns at most three
\* patterns, the static templates of the requested catalogue kinds first and
\* in request order; with the index unavailable the result is exactly the
\* first three of these templates
C6_FirstThreeStaticTemplates ==
    Returned("query_safe_patterns")
        => LET kinds == RequestedKinds(arg.error_types)
               k     == Min(3, Len(kinds))
           IN  /\ ret.raised = "none"
               /\ Len(ret.patterns) <= 3
               /\ Len(ret.patterns) >= k
               /\ \A i \in 1..k : ret.patterns[i] = safe_pattern(kinds[i])
               /\ IndexUnavailable => Len(ret.patterns) = k

\* C6 witness: the index raised at query time for a request of four
\* catalogue kinds, and three templates came back
C6_QueryRaisedFourKinds ==
    /\ Returned("query_safe_patterns")
    /\ has_chromadb /\ index_env = "query_raises"
    /\ Len(RequestedKinds(arg.error_types)) = 4
    /\ Len(ret.patterns) = 3

\* C6 as stated: with the index unavailable query_safe_patterns does not
\* raise and returns the static template of every requested catalogue kind
C6_EveryRequestedTemplate ==
    (Returned("query_safe_patterns") /\ IndexUnavailable)
        => /\ ret.raised = "none"
           /\ \A i \in 1..Len(arg.error_types) :
                 arg.error_types[i] \in CatalogueTypes
                    => \E j \in 1..Len(ret.patterns) :
                          ret.patterns[j] = safe_pattern(arg.error_types[i])

\* C7 as stated: a validate_code call that is inside the index lookup
\* eventually returns
C7_LookupBounded ==
    (pc = "in_query" /\ arg.op = "validate_code") ~> Returned("validate_code")

\* C8: the quality score the analyzer returns is between 0 and 100
C8_ScoreInRange ==
    Returned("analyze_with_context")
        => ret.out.quality_score >= 0 /\ ret.out.quality_score <= 1000

\* C8 witness: a snippet with bonuses and enough issues that the score
\* is cut off at 0
C8_ScoreCutAtZero ==
    /\ Returned("analyze_with_context")
    /\ ret.out.quality_score = 0
    /\ readability_score(arg.code) > 0
    /\ Len(ret.out.errors) >= 4

\* the issues of a given severity among the detected ones
IssuesOf(errors, severity) ==
    Cardinality({i \in 1..Len(errors) : errors[i].severity = severity})

\* C9: the quality score is clamp(50 + 0.6 readability + 0.3 performance
\* + safety, 0, 100), safety charging each detected issue once: 30 for a
\* critical, 15 for a high, 5 for a medium one (all in tenths)
C9_ScoreFormula ==
    Returned("analyze_with_context")
        => LET errors == ret.out.errors
               total  == 500 + 6 * readability_score(arg.code)
                             + 3 * performance_score(arg.code)
                             - 300 * IssuesOf(errors, "critical")
                             - 150 * IssuesOf(errors, "high")
                             - 50 * IssuesOf(errors, "medium")
           IN  /\ \A i \in 1..Len(errors) : errors[i].severity \in {"critical", "high", "medium"}
               /\ ret.out.quality_score = IF total < 0 THEN 0
                                          ELSE IF total > 1000 THEN 1000 ELSE total

\* C9 witness: issues of the three severities, several of one, with
\* bonuses, the score strictly inside the range
C9_AllSeveritiesScored ==
    /\ Returned("analyze_with_context")
    /\ IssuesOf(ret.out.errors, "critical") >= 1
    /\ IssuesOf(ret.out.errors, "high") >= 1
    /\ IssuesOf(ret.out.errors, "medium") >= 2
    /\ readability_score(arg.code) > 0
    /\ performance_score(arg.code) # 0
    /\ ret.out.quality_score > 0 /\ ret.out.quality_score < 1000

\* C10 as stated: every step in which a validate_code call on a non-blank
\* snippet or a learn_from_code call returns adds one row to code_history
C10_EveryCallAppends ==
    [][(/\ ret' # ret
        /\ ret'.op \in {"validate_code", "learn_from_code"}
        /\ ~IsBlank(arg'.code))
          => Len(code_history') = Len(code_history) + 1]_vars

C12_SafeLeavesCodeAlone ==
    (/\ Returned("validate_code")
     /\ ~IsBlank(arg.code)
     /\ ~analyze_code(arg.code).has_errors)
        => /\ Has("status") /\ ret.out.status = "safe"
           /\ Has("original_code") /\ ret.out.original_code = arg.code
           /\ \E i \in DOMAIN code_history :
                 /\ code_history[i].original_code = arg.code
                 /\ code_history[i].safe_code = arg.code

\* C13 as stated: learn_quality_pattern called again with a (kind,
\* template) pair it knows inserts no second record: its list and its table
\* hold one record per pair
C13_OneRecordPerPair ==
    /\ \A i, j \in DOMAIN quality_patterns :
          (/\ quality_patterns[i].type = quality_patterns[j].type
           /\ quality_patterns[i].code = quality_patterns[j].code) => i = j
    /\ \A i, j \in DOMAIN pattern_table :
          (/\ pattern_table[i].context_id = 0 /\ pattern_table[j].context_id = 0
           /\ pattern_table[i].pattern_type = pattern_table[j].pattern_type
           /\ pattern_table[i].pattern_code = pattern_table[j].pattern_code) => i = j

\* C14 as stated: get_similar_contexts gives similarity 1.0 to a stored
\* snippet whose word set equals the query's, two empty word sets included
\* (so the snippet is among the results, whatever the threshold), and 0.0 to
\* one whose word set shares nothing with a different query word set
C14_IdenticalOneDisjointZero ==
    (ret.op = "get_similar_contexts" /\ ret.raised = "none")
        => \A i \in DOMAIN ret.rows :
              LET code_words    == code_keywords(arg.given.code)
                  context_words == code_keywords(ret.rows[i].original_code)
              IN  /\ code_words = context_words
                        => \E j \in DOMAIN ret.out :
                              /\ ret.out[j].id = ret.rows[i].id
                              /\ ret.out[j].similarity = Quotient(1, 1)
                  /\ (code_words # context_words /\ code_words \cap context_words = {})
                        => \A j \in DOMAIN ret.out :
                              ret.out[j].id = ret.rows[i].id
                                 => ret.out[j].similarity = Quotient(0, 1)

\* C15 as stated: get_similar_contexts returns exactly the candidate rows
\* whose similarity is at least the threshold, a threshold of 0.0 when the
\* caller gives none, ordered by non-increasing similarity
C15_ThresholdDefaultsToZero ==
    (ret.op = "get_similar_contexts" /\ ret.raised = "none")
        => LET threshold == IF HasKey(arg.given, "similarity_threshold")
                            THEN arg.given.similarity_threshold ELSE 0
           IN  /\ {ret.out[j].id : j \in DOMAIN ret.out}
                    = {ret.rows[i].id : i \in
                         {k \in DOMAIN ret.rows :
                            AtLeast(jaccard_similarity(code_keywords(arg.given.code),
                                        code_keywords(ret.rows[k].original_code)),
                                    Quotient(threshold, 10))}}
               /\ \A j, k \in DOMAIN ret.out :
                     j < k => AtLeast(ret.out[j].similarity, ret.out[k].similarity)

\* the issues of a given type among the detected ones
IssuesOfType(errors, type) ==
    Cardinality({i \in 1..Len(errors) : errors[i].type = type})

\* C16 as stated: the analysis of the code generate_safe_code produced
\* reports no issue of a kind that has a fixer and that the analysis of the
\* original reported
C16_FixedKindsGone ==
    ret.op = "generate_safe_code"
        => \A kind \in CatalogueTypes :
              IssuesOfType(ret.analysis.errors, kind) > 0
                 => IssuesOfType(ret.safe_analysis.errors, kind) = 0

\* C17 as stated: a one-line snippet that divides by a variable is reported
\* with exactly one division_by_zero issue, of high severity, at line 1; the
\* code made of it contains error handling and its analysis reports no
\* division issue
C17_VariableDivisionReported ==
    (ret.op = "generate_safe_code" /\ arg.code \in {<<DivLine>>, <<RatioLine>>})
        => /\ Len(ret.analysis.errors) = 1
           /\ ret.analysis.errors[1].type = "division_by_zero"
           /\ ret.analysis.errors[1].severity = "high"
           /\ ret.analysis.errors[1].line = 1
           /\ Contains(ret.safe_code, "try:") /\ Contains(ret.safe_code, "except")
           /\ IssuesOfType(ret.safe_analysis.errors, "division_by_zero") = 0

\* C18 as stated: a snippet with a docstring, a return annotation, several
\* lines and a handled exception, in which no issue is detected, is scored
\* 70 or more, with or without a '# ' comment
C18_DocumentedFunctionScores70 ==
    (/\ Returned("analyze_with_context")
     /\ Contains(arg.code, "\"\"\"") /\ Contains(arg.code, "->")
     /\ LineCount(arg.code) > 1
     /\ Contains(arg.code, "try:") /\ Contains(arg.code, "except")
     /\ ret.out.errors = <<>>)
        => ret.out.quality_score >= 700

\* C19 as stated: a learn_from_code call with an example is answered with
\* status learned and leaves the example in the memory, and the
\* validate_code call that follows it, on a snippet similar to the example,
\* reports at least one similar context
C19_LearnedExampleRecalled ==
    [][(/\ ret.op = "learn_from_code"
        /\ ~IsBlank(arg.code)
        /\ ret'.op = "validate_code"
        /\ is_similar_code(arg'.code, arg.code))
          => /\ HasKey(ret.out, "status") /\ ret.out.status = "learned"
             /\ \E i \in DOMAIN context_window : context_window[i].code = arg.code
             /\ HasKey(ret'.out, "context_insights")
             /\ ret'.out.context_insights.similar_contexts_found >= 1]_vars

\* C20 as stated: validate_code on the empty string returns no error but
\* status safe, a quality score of exactly 50 and no issue
C20_EmptyStringIsSafe ==
    (Returned("validate_code") /\ arg.code = EmptyCode)
        => /\ ~Has("error")
           /\ Has("status") /\ ret.out.status = "safe"
           /\ Has("quality_score") /\ ret.out.quality_score = 500
           /\ Has("analysis") /\ ret.out.analysis.total_errors = 0

\* C21 as stated: when the window holds a correction (improved code that
\* differs from the original, score 90 or more) whose original is similar
\* to the analysed snippet, analyze_with_context returns a recommendation
\* made from that context
C21_CorrectionRecommended ==
    Returned("analyze_with_context")
        => \A i \in DOMAIN context_window :
              (/\ context_window[i].score >= 900
               /\ context_window[i].safe_code # context_window[i].code
               /\ is_similar_code(arg.code, context_window[i].code))
                 => \E k \in DOMAIN ret.out.recommendations :
                       ret.out.recommendations[k].code = context_window[i].code

\* C22: a read interleaved with add_code_context calls sees each call's
\* rows all or not at all: the insights returned are those of one committed
\* state of the store, the first k history records with exactly the pattern
\* rows of those records
C22_InsightsOfOneSnapshot ==
    (Returned("memory.get_context_insights") /\ ret.raised = "none")
        => \E k \in 0..Len(code_history) :
              /\ ret.out.total_contexts = k
              /\ ret.out.pattern_stats =
                    pattern_stats(SelectSeq(pattern_table,
                        LAMBDA row : \E i \in 1..k : code_history[i].id = row.context_id))

\* C23: the window is only a cache of the durable history: an analysis made
\* after the window was lost finds the same similar contexts as one made by
\* an engine that kept its window, that is, the stored records that pass
\* the score and similarity tests
C23_SimilarContextsSurviveRestart ==
    Returned("analyze_with_context")
        => LET kept == SelectSeq(code_history, LAMBDA row :
                          /\ ~(row.quality_score < ret.out.quality_score - 100)
                          /\ is_similar_code(arg.code, row.original_code))
               found == ret.out.similar_contexts
           IN  /\ Len(found) = Len(kept)
               /\ \A i \in DOMAIN found : found[i].id = kept[i].id

\* C24: the fixers commute and a fixer without its construct is a no-op:
\* the issues of a snippet given in any order yield the improved code of
\* the analyzer's order, and an issue of a kind the snippet does not have
\* leaves the code as it was
C24_FixersCommute ==
    Returned("generate_safe_code")
        => LET errors == analyze_code(arg.code).errors
               given  == arg.detected_issues
               present == {errors[i].type : i \in DOMAIN errors}
           IN  /\ {given[i].type : i \in DOMAIN given} \subseteq present
                     => ret.safe_code = fix_errors(arg.code, errors)
               /\ {given[i].type : i \in DOMAIN given} \cap present = {}
                     => ret.safe_code = arg.code

\* C25: each fixer runs once per distinct kind of issue present: the
\* improved code of a snippet, however many issues of one kind it has, is
\* the code after one run of the fixer of each kind found
C25_OneFixPerKind ==
    (Returned("generate_safe_code") /\ HasKey(ret, "analysis"))
        => LET errors == ret.analysis.errors
               kinds  == SelectSeq(KindOrder,
                            LAMBDA t : \E i \in DOMAIN errors : errors[i].type = t)
           IN  ret.safe_code = fix_errors(arg.code, [i \in DOMAIN kinds |-> [type |-> kinds[i]]])

\* C26: analysing a snippet has no side effect: the step on which
\* analyze_with_context returns leaves the context window, the learned
\* pattern list and both durable tables as they were
C26_AnalysisLeavesMemory ==
    [][(ret.op = "pending" /\ ret'.op = "analyze_with_context")
          => UNCHANGED <<context_window, quality_patterns, code_history, pattern_table>>]_vars

\* C26 witness: an analysis has returned on a memory that holds a record
\* similar to the snippet analysed
C26_AnalysedOnStoredMemory ==
    /\ Returned("analyze_with_context")
    /\ ret.out.similar_contexts # <<>>
    /\ code_history # <<>>

\* C27: every record of the context window is a committed record of the
\* durable history with the same id and code, the ids of the window are
\* strictly increasing, and the window is never larger than the history,
\* also after a commit that failed
C27_WindowRecordsCommitted ==
    /\ \A i \in DOMAIN context_window :
          \E j \in DOMAIN code_history :
             /\ code_history[j].id = context_window[i].id
             /\ code_history[j].original_code = context_window[i].code
    /\ \A i, j \in DOMAIN context_window :
          i < j => context_window[i].id < context_window[j].id
    /\ Len(context_window) <= Len(code_history)

\* C28: add_code_context is all or nothing: a call that raises KeyError on
\* one of its patterns leaves the history table, the pattern table and the
\* context window as they were before the call
C28_FailedAddChangesNothing ==
    [][(/\ arg'.op = "add_code_context"
        /\ ret'.op = "add_code_context"
        /\ ret'.raised = "KeyError")
          => UNCHANGED <<code_history, pattern_table, context_window>>]_vars

\* C28 witness: a call whose first pattern is well formed and whose second
\* lacks a key has raised, on a store that already held records
C28_RaisedAfterGoodPattern ==
    /\ Returned("add_code_context")
    /\ ret.raised = "KeyError"
    /\ Len(arg.in.patterns) = 2
    /\ ~PatternRaises(arg.in.patterns[1])
    /\ PatternRaises(arg.in.patterns[2])
    /\ code_history # <<>>
    /\ pattern_table # <<>>

\* C29: a record just stored whose words are those of the query, and not
\* none, is among the contexts the next get_similar_contexts call returns
C29_StoredRecordFound ==
    (/\ Returned("get_similar_contexts")
     /\ ret.raised = "none"
     /\ code_history # <<>>
     /\ code_keywords(arg.given.code) # {}
     /\ code_keywords(code_history[Len(code_history)].original_code)
           = code_keywords(arg.given.code))
        => \E k \in DOMAIN ret.out : ret.out[k].id = code_history[Len(code_history)].id

\* C30: no snippet scores above 75.5: the total before clamping is at most
\* 50 + 0.6 * 35 + 0.3 * 15, so the cut at 100 never applies and a score
\* differs from its total only by the cut at 0
C30_ScoreAtMost755 ==
    Returned("analyze_with_context")
        => LET total == 500 + 6 * readability_score(arg.code)
                            + 3 * performance_score(arg.code)
                            + 10 * safety_score(ret.out.errors)
           IN  /\ total <= 755
               /\ ret.out.quality_score <= 755
               /\ ret.out.quality_score # total => ret.out.quality_score = 0 /\ total < 0

\* C30 witness: a snippet with every readability and performance bonus and
\* no issue scores exactly 75.5
C30_HighestScore ==
    /\ Returned("analyze_with_context")
    /\ readability_score(arg.code) = 35
    /\ performance_score(arg.code) = 15
    /\ ret.out.errors = <<>>
    /\ ret.out.quality_score = 755

====
